---- MODULE Spec2Model ----
(***************************************************************************)
(* Model of the loan-requirement extraction pipeline of loanguard          *)
(* (src/src/extractor.py, src/src/models.py).                              *)
(*                                                                         *)
(* Python values are tagged records, so that values of different Python    *)
(* types can be compared: None is [t |-> "null"], a str is                 *)
(* [t |-> "str", s |-> ...], an int [t |-> "num", n |-> ...], a dict       *)
(* [t |-> "obj", o |-> function from keys to values], a list               *)
(* [t |-> "arr", a |-> sequence].  Texts are TLA+ strings handled          *)
(* character by character.  A TLA+ string cannot contain the backtick      *)
(* character, so the model writes the backtick as the apostrophe: the      *)
(* markdown fence of the source is written '''json ... ''' here.           *)
(***************************************************************************)
EXTENDS Integers, Sequences, FiniteSets, TLC

VARIABLES
    ctor,        \* outcome of RequirementExtractor.__init__ (and, when it raised, its inputs)
    extractor,   \* the constructed extractor object (self.api_key, ...)
    run,         \* the current invocation of extract_requirements
    prev,        \* the last completed invocation: its inputs and outcome
    requests,    \* outbound requests issued by the current invocation
    req_in,      \* argument pair of one _build_requirement call
    req_out,     \* its outcome
    prof_in,     \* argument pair of one _build_loan_profile call
    prof_out,    \* its outcome
    server,      \* the application that runs: "api" (api.py) or "api_v2" (api_v2.py)
    objects,     \* api.py: the LoanRequirement objects alive, by object identity
    loan_profiles, \* api.py: the registry loan_profiles, loan id -> LoanProfile
    db,          \* api_v2.py: the committed rows of the database tables
    handled,     \* the last request handled and how the handler ended
    subject,     \* the LoanProfile or Loan a method is called on
    call         \* that method call and what it returned

storeVars == <<server, objects, loan_profiles, db, handled>>
unitVars == <<subject, call>>

vars == <<ctor, extractor, run, prev, requests, req_in, req_out, prof_in, prof_out,
          storeVars, unitVars>>

\* the values of the variables of a part of the program that is not running
EmptyDb ==
    [users |-> {}, loans |-> {}, requirements |-> {}, compliance_events |-> {},
     next_id |-> [users |-> 1, loans |-> 1, requirements |-> 1, compliance_events |-> 1]]
NoStore ==
    /\ server = "none"
    /\ objects = << >>
    /\ loan_profiles = << >>
    /\ db = EmptyDb
    /\ handled = [op |-> "none"]
NoUnit ==
    /\ subject = [t |-> "none"]
    /\ call = [op |-> "none"]

-----------------------------------------------------------------------------
(* Python values *)

None == [t |-> "null"]
Str(s) == [t |-> "str", s |-> s]
Num(n) == [t |-> "num", n |-> n]
Bool(b) == [t |-> "bool", b |-> b]
Obj(f) == [t |-> "obj", o |-> f]
Arr(a) == [t |-> "arr", a |-> a]
EmptyDict == Obj(<< >>)

\* bool(v): the truth value Python gives a value in `if v` and `v or d`
Truthy(v) ==
    CASE v.t = "null" -> FALSE
      [] v.t = "str" -> v.s # ""
      [] v.t = "num" -> v.n # 0
      [] v.t = "bool" -> v.b
      [] v.t = "obj" -> DOMAIN v.o # {}
      [] v.t = "arr" -> Len(v.a) > 0
      [] OTHER -> TRUE

\* dict.get(key, default) on the mapping f
Get(f, key, default) == IF key \in DOMAIN f THEN f[key] ELSE default

\* a call that returned v / a call that raised the exception class exc
Return(v) == [ok |-> TRUE, v |-> v]
Raise(exc) == [ok |-> FALSE, exc |-> exc]

Min(a, b) == IF a <= b THEN a ELSE b

-----------------------------------------------------------------------------
(* Characters and strings *)

Char(s, i) == SubSeq(s, i, i)

UpperCase == "ABCDEFGHIJKLMNOPQRSTUVWXYZ"
LowerCase == "abcdefghijklmnopqrstuvwxyz"
DigitChars == "0123456789"

\* position of the one-character string c in the alphabet abc, 0 when absent
PosIn(abc, c) ==
    LET I == {i \in 1..Len(abc) : Char(abc, i) = c}
    IN  IF I = {} THEN 0 ELSE CHOOSE i \in I : TRUE

LowerChar(c) ==
    LET i == PosIn(UpperCase, c) IN IF i = 0 THEN c ELSE Char(LowerCase, i)

\* str.lower()
RECURSIVE Lower(_)
Lower(s) == IF s = "" THEN "" ELSE LowerChar(Head(s)) \o Lower(Tail(s))

\* str.replace(" ", "_")
RECURSIVE ReplaceSpaces(_)
ReplaceSpaces(s) ==
    IF s = "" THEN ""
    ELSE (IF Head(s) = " " THEN "_" ELSE Head(s)) \o ReplaceSpaces(Tail(s))

\* decimal digits of a natural number, as str(n) and the d format give them
RECURSIVE DigitStr(_)
DigitStr(n) ==
    IF n < 10 THEN Char(DigitChars, n + 1)
    ELSE DigitStr(n \div 10) \o Char(DigitChars, (n % 10) + 1)

\* the format specification 03d: zero-padded to a width of at least three
Format03d(n) ==
    LET d == DigitStr(n)
    IN  CASE Len(d) = 1 -> "00" \o d
          [] Len(d) = 2 -> "0" \o d
          [] OTHER -> d

\* s[p:] starts with lit
StartsAt(s, p, lit) ==
    /\ p >= 1
    /\ p + Len(lit) - 1 <= Len(s)
    /\ SubSeq(s, p, p + Len(lit) - 1) = lit

\* least index >= p at which lit occurs in s, 0 when it does not
Find(s, lit, p) ==
    LET I == {i \in p..(Len(s) - Len(lit) + 1) : StartsAt(s, i, lit)}
    IN  IF I = {} THEN 0 ELSE CHOOSE i \in I : \A j \in I : i <= j

\* greatest index at which lit occurs in s, 0 when it does not
FindLast(s, lit) ==
    LET I == {i \in 1..(Len(s) - Len(lit) + 1) : StartsAt(s, i, lit)}
    IN  IF I = {} THEN 0 ELSE CHOOSE i \in I : \A j \in I : i >= j

\* the regular-expression class \s, over the characters the texts use
IsSpace(c) == c \in {" ", "\n", "\t"}
NotSpace(c) == ~IsSpace(c)

-----------------------------------------------------------------------------
(* json.loads, for the JSON the texts use: objects, arrays, strings       *)
(* without escapes, non-negative integers, true, false, null.  A parse    *)
(* step returns [ok, v, next] (next: the index after the value) or        *)
(* [ok |-> FALSE].                                                         *)

Bad == [ok |-> FALSE]
Good(v, next) == [ok |-> TRUE, v |-> v, next |-> next]

IsDigit(c) == PosIn(DigitChars, c) # 0

\* least index >= p of s that holds no white space, Len(s) + 1 when there
\* is none
RECURSIVE SkipWs(_, _)
SkipWs(s, p) ==
    IF p > Len(s) THEN Len(s) + 1
    ELSE IF NotSpace(Char(s, p)) THEN p
    ELSE SkipWs(s, p + 1)

\* least index >= p of s that holds no digit
RECURSIVE SkipDigits(_, _)
SkipDigits(s, p) ==
    IF p > Len(s) THEN Len(s) + 1
    ELSE IF ~IsDigit(Char(s, p)) THEN p
    ELSE SkipDigits(s, p + 1)

\* greatest index in low..p of s that holds no white space, low - 1 when
\* there is none
RECURSIVE SkipWsBack(_, _, _)
SkipWsBack(s, p, low) ==
    IF p < low THEN low - 1
    ELSE IF NotSpace(Char(s, p)) THEN p
    ELSE SkipWsBack(s, p - 1, low)

RECURSIVE StrToNat(_)
StrToNat(d) ==
    IF d = "" THEN 0
    ELSE 10 * StrToNat(SubSeq(d, 1, Len(d) - 1)) + (PosIn(DigitChars, Char(d, Len(d))) - 1)

\* a string literal opening at p: up to the next quote; a raw control
\* character inside a literal is rejected by the decoder
ParseString(s, p) ==
    LET q == Find(s, "\"", p + 1)
        body == SubSeq(s, p + 1, q - 1)
    IN  IF q = 0 \/ (\E i \in 1..Len(body) : Char(body, i) \in {"\n", "\t", "\\"})
        THEN Bad
        ELSE Good(body, q + 1)

\* an integer literal opening at p; a leading 0 ends the literal
ParseNumber(s, p) ==
    LET e == IF Char(s, p) = "0" THEN p + 1 ELSE SkipDigits(s, p)
    IN  Good(Num(StrToNat(SubSeq(s, p, e - 1))), e)

RECURSIVE ParseValue(_, _), ParseMembers(_, _, _), ParseElements(_, _, _)

\* the members of an object, p at the quote opening the next key
ParseMembers(s, p, acc) ==
    IF ~StartsAt(s, p, "\"") THEN Bad
    ELSE LET k == ParseString(s, p) IN
    IF ~k.ok THEN Bad
    ELSE LET c == SkipWs(s, k.next) IN
    IF ~StartsAt(s, c, ":") THEN Bad
    ELSE LET v == ParseValue(s, SkipWs(s, c + 1)) IN
    IF ~v.ok THEN Bad
    ELSE LET e == SkipWs(s, v.next)
             acc2 == (k.v :> v.v) @@ acc
         IN  CASE StartsAt(s, e, "}") -> Good(Obj(acc2), e + 1)
               [] StartsAt(s, e, ",") -> ParseMembers(s, SkipWs(s, e + 1), acc2)
               [] OTHER -> Bad

\* the elements of an array, p at the first character of the next element
ParseElements(s, p, acc) ==
    LET v == ParseValue(s, p) IN
    IF ~v.ok THEN Bad
    ELSE LET e == SkipWs(s, v.next)
             acc2 == Append(acc, v.v)
         IN  CASE StartsAt(s, e, "]") -> Good(Arr(acc2), e + 1)
               [] StartsAt(s, e, ",") -> ParseElements(s, SkipWs(s, e + 1), acc2)
               [] OTHER -> Bad

ParseValue(s, p) ==
    CASE StartsAt(s, p, "{") ->
            LET q == SkipWs(s, p + 1)
            IN  IF StartsAt(s, q, "}") THEN Good(EmptyDict, q + 1)
                ELSE ParseMembers(s, q, << >>)
      [] StartsAt(s, p, "[") ->
            LET q == SkipWs(s, p + 1)
            IN  IF StartsAt(s, q, "]") THEN Good(Arr(<< >>), q + 1)
                ELSE ParseElements(s, q, << >>)
      [] StartsAt(s, p, "\"") ->
            LET r == ParseString(s, p)
            IN  IF r.ok THEN Good(Str(r.v), r.next) ELSE Bad
      [] StartsAt(s, p, "null") -> Good(None, p + 4)
      [] StartsAt(s, p, "true") -> Good(Bool(TRUE), p + 4)
      [] StartsAt(s, p, "false") -> Good(Bool(FALSE), p + 5)
      [] p <= Len(s) /\ IsDigit(Char(s, p)) -> ParseNumber(s, p)
      [] OTHER -> Bad

\* json.loads(s): the decoded value, or json.JSONDecodeError
JsonLoads(s) ==
    LET r == ParseValue(s, SkipWs(s, 1))
    IN  IF r.ok /\ SkipWs(s, r.next) > Len(s)
        THEN Return(r.v)
        ELSE Raise("JSONDecodeError")

-----------------------------------------------------------------------------
(* models.py: the enumerations, by their values *)

RequirementCategory ==
    {"financial_reporting", "covenant_compliance", "insurance", "reserve_funding",
     "property_management", "leasing", "capital_improvements", "tax_escrow",
     "environmental", "legal_entity", "other"}

Frequency ==
    {"monthly", "quarterly", "semi_annual", "annual", "one_time", "as_needed",
     "upon_request"}

ComplianceStatus ==
    {"compliant", "non_compliant", "at_risk", "pending", "unknown", "not_yet_due"}

Severity == {"critical", "high", "medium", "low"}

\* Enum(value) inside try/except ValueError: the member, or the fallback
EnumOr(members, value, fallback) == IF value \in members THEN value ELSE fallback

\* Deadline(...): the dataclass of models.py, specific_date left at its default
Deadline(description, days_after_period_end, day_of_month, frequency) ==
    [t |-> "Deadline", description |-> description,
     days_after_period_end |-> days_after_period_end, specific_date |-> None,
     day_of_month |-> day_of_month, frequency |-> frequency]

\* Threshold(...): the dataclass of models.py, which validates nothing
Threshold(metric, operator, value, secondary_value, unit) ==
    [t |-> "Threshold", metric |-> metric, operator |-> operator, value |-> value,
     secondary_value |-> secondary_value, unit |-> unit]

-----------------------------------------------------------------------------
(* extractor.py: RequirementExtractor._build_requirement *)

\* ParseCategory without the except clause: an unknown value raises
ParseCategoryUnguarded(data) ==
    LET raw == Get(data, "category", Str("other"))
        value == IF raw.t = "str" THEN ReplaceSpaces(Lower(raw.s)) ELSE ""
    IN  IF raw.t # "str" THEN Raise("AttributeError")
        ELSE IF value \in RequirementCategory THEN Return(value)
        ELSE Raise("ValueError")

\* "category" of the entry: .get, .lower(), .replace, RequirementCategory(...)
ParseCategory(data) ==
    LET raw == Get(data, "category", Str("other"))
    IN  IF raw.t # "str" THEN Raise("AttributeError")
        ELSE Return(EnumOr(RequirementCategory, ReplaceSpaces(Lower(raw.s)), "other"))

\* "deadline" of the entry
ParseDeadline(data) ==
    LET dl == Get(data, "deadline", None) IN
    IF ~Truthy(dl) THEN Return(None)
    ELSE IF dl.t # "obj" THEN Raise("AttributeError")
    ELSE LET raw == Get(dl.o, "frequency", Str("as_needed")) IN
    IF raw.t # "str" THEN Raise("AttributeError")
    ELSE Return(Deadline(Get(dl.o, "description", Str("")),
                         Get(dl.o, "days_after_period_end", None),
                         Get(dl.o, "day_of_month", None),
                         EnumOr(Frequency, ReplaceSpaces(Lower(raw.s)), "as_needed")))

\* "threshold" of the entry
ParseThreshold(data) ==
    LET th == Get(data, "threshold", None) IN
    IF ~Truthy(th) THEN Return(None)
    ELSE IF th.t # "obj" THEN Raise("AttributeError")
    ELSE Return(Threshold(Get(th.o, "metric", Str("")),
                          Get(th.o, "operator", Str(">=")),
                          Get(th.o, "value", Num(0)),
                          Get(th.o, "secondary_value", None),
                          Get(th.o, "unit", None)))

\* "severity" of the entry: .get, .lower(), Severity(...)
ParseSeverity(data) ==
    LET raw == Get(data, "severity", Str("medium"))
    IN  IF raw.t # "str" THEN Raise("AttributeError")
        ELSE Return(EnumOr(Severity, Lower(raw.s), "medium"))

\* the length cap of the stored source excerpt
ExcerptCap == 500

\* OriginalText with the slice one character too long
OriginalTextOffByOne(data) ==
    LET raw == Get(data, "original_text", Str(""))
    IN  CASE raw.t = "str" -> Return(Str(SubSeq(raw.s, 1, Min(ExcerptCap + 1, Len(raw.s)))))
          [] raw.t = "arr" -> Return(Arr(SubSeq(raw.a, 1, Min(ExcerptCap + 1, Len(raw.a)))))
          [] OTHER -> Raise("TypeError")

\* data.get("original_text", "")[:500]
OriginalText(data) ==
    LET raw == Get(data, "original_text", Str(""))
    IN  CASE raw.t = "str" -> Return(Str(SubSeq(raw.s, 1, Min(ExcerptCap, Len(raw.s)))))
          [] raw.t = "arr" -> Return(Arr(SubSeq(raw.a, 1, Min(ExcerptCap, Len(raw.a)))))
          [] OTHER -> Raise("TypeError")

\* f"REQ-{index:03d}"
RequirementId(index) == "REQ-" \o Format03d(index)

\* _build_requirement(data, index): a LoanRequirement, or the exception raised
BuildRequirement(entry, index) ==
    IF entry.t # "obj" THEN Raise("AttributeError")
    ELSE LET data == entry.o
             category == ParseCategory(data)
             deadline == ParseDeadline(data)
             threshold == ParseThreshold(data)
             severity == ParseSeverity(data)
             original_text == OriginalText(data)
         IN  CASE ~category.ok -> category
               [] ~deadline.ok -> deadline
               [] ~threshold.ok -> threshold
               [] ~severity.ok -> severity
               [] ~original_text.ok -> original_text
               [] OTHER -> Return(
                    [id |-> RequirementId(index),
                     title |-> Get(data, "title", Str("Requirement " \o DigitStr(index))),
                     category |-> category.v,
                     description |-> Get(data, "description", Str("")),
                     plain_language_summary |-> Get(data, "plain_language_summary", Str("")),
                     original_text |-> original_text.v,
                     document_reference |-> Get(data, "document_reference", Str("")),
                     deadline |-> deadline.v,
                     threshold |-> threshold.v,
                     severity |-> severity.v,
                     cure_period_days |-> Get(data, "cure_period_days", None),
                     status |-> "unknown",
                     last_checked |-> None,
                     notes |-> Str("")])

-----------------------------------------------------------------------------
(* extractor.py: RequirementExtractor._build_loan_profile *)

\* v or d
OrElse(v, d) == IF Truthy(v) THEN v ELSE d

\* the keys of a dict, as a for loop visits them
KeySeq(S) ==
    CHOOSE f \in [1..Cardinality(S) -> S] :
        \A i, j \in 1..Cardinality(S) : f[i] = f[j] => i = j

\* what a for loop over the value v visits: the elements of a list, the
\* characters of a str, the keys of a dict; other values are not iterable
Iterate(v) ==
    CASE v.t = "arr" -> Return(v.a)
      [] v.t = "str" -> Return([i \in 1..Len(v.s) |-> Str(Char(v.s, i))])
      [] v.t = "obj" -> Return([i \in 1..Cardinality(DOMAIN v.o) |-> Str(KeySeq(DOMAIN v.o)[i])])
      [] OTHER -> Raise("TypeError")

\* BuildRequirements numbering the entries from 0, as enumerate does
RECURSIVE BuildRequirementsFromZero(_, _, _)
BuildRequirementsFromZero(entries, i, acc) ==
    IF i > Len(entries) THEN Return(acc)
    ELSE LET req == BuildRequirement(entries[i], i - 1)
         IN  IF req.ok THEN BuildRequirementsFromZero(entries, i + 1, Append(acc, req.v))
             ELSE req

\* the loop over the entries: entries[i..] built and appended to acc, unless
\* one of them raises, which ends the loop and the call
RECURSIVE BuildRequirements(_, _, _)
BuildRequirements(entries, i, acc) ==
    IF i > Len(entries) THEN Return(acc)
    ELSE LET req == BuildRequirement(entries[i], i)
         IN  IF req.ok THEN BuildRequirements(entries, i + 1, Append(acc, req.v))
             ELSE req

\* _build_loan_profile(parsed, loan_id), the clock reading `now`
BuildLoanProfile(parsed, loan_id, now) ==
    IF parsed.t # "obj" THEN Raise("AttributeError")
    ELSE LET loan_info == Get(parsed.o, "loan_info", EmptyDict) IN
    IF loan_info.t # "obj" THEN Raise("AttributeError")
    ELSE LET entries == Iterate(Get(parsed.o, "requirements", Arr(<< >>))) IN
    IF ~entries.ok THEN entries
    ELSE LET reqs == BuildRequirements(entries.v, 1, << >>) IN
    IF ~reqs.ok THEN reqs
    ELSE Return(
        [loan_id |-> loan_id,
         loan_name |-> "Loan " \o loan_id,
         property_name |-> OrElse(Get(loan_info.o, "property_name", None), Str("Unknown Property")),
         borrower_name |-> OrElse(Get(loan_info.o, "borrower_name", None), Str("Unknown Borrower")),
         lender_name |-> OrElse(Get(loan_info.o, "lender_name", None), Str("Unknown Lender")),
         original_loan_amount |-> OrElse(Get(loan_info.o, "loan_amount", None), Num(0)),
         current_balance |-> None,
         origination_date |-> Get(loan_info.o, "origination_date", None),
         maturity_date |-> Get(loan_info.o, "maturity_date", None),
         requirements |-> reqs.v,
         events |-> << >>,
         source_documents |-> << >>,
         extraction_date |-> now])

-----------------------------------------------------------------------------
(* extractor.py: RequirementExtractor._parse_response *)

FenceOpen == "'''json"
Fence == "'''"

\* re.search(r'```json\s*(.*?)\s*```', text, re.DOTALL): group(1) of the
\* leftmost match, or no match.  The match opens at the first ```json; the
\* leading \s* takes the white space after it; the lazy group ends where
\* only white space separates it from the next ```.
FencedBlock(text) ==
    LET open == Find(text, FenceOpen, 1)
        from == IF open = 0 THEN 0 ELSE SkipWs(text, open + Len(FenceOpen))
        close == IF open = 0 THEN 0 ELSE Find(text, Fence, from)
        to == SkipWsBack(text, close - 1, from)
    IN  IF open = 0 \/ close = 0 THEN [found |-> FALSE]
        ELSE [found |-> TRUE, group |-> SubSeq(text, from, to)]

\* re.search(r'\{.*\}', text, re.DOTALL): group(0) of the leftmost match,
\* the greedy .* reaching to the last closing brace
BraceSpan(text) ==
    LET open == Find(text, "{", 1)
        close == FindLast(text, "}")
    IN  IF open = 0 \/ close < open THEN [found |-> FALSE]
        ELSE [found |-> TRUE, group |-> SubSeq(text, open, close)]

\* the candidate payload _parse_response hands to json.loads
Candidate(response_text) ==
    LET fenced == FencedBlock(response_text)
    IN  IF fenced.found THEN fenced ELSE BraceSpan(response_text)

\* _parse_response(response_text): the decoded payload, or ValueError when
\* no candidate is found, or what json.loads raises
ParseResponse(response_text) ==
    LET json_match == Candidate(response_text)
    IN  IF json_match.found THEN JsonLoads(json_match.group)
        ELSE Raise("ValueError")

-----------------------------------------------------------------------------
(* Document texts.  A document of L characters is too long to write out,   *)
(* so a text is kept as a sequence of pieces: a piece is either a slice    *)
(* document[from..to] (1-based, inclusive) of the uploaded document or a   *)
(* literal string.  Slicing and concatenation are computed on the pieces.  *)

Slice(from, to) == [src |-> "document", from |-> from, to |-> to]
Literal(text) == [src |-> "literal", text |-> text]

PieceLen(p) == IF p.src = "literal" THEN Len(p.text) ELSE p.to - p.from + 1

\* len(text)
RECURSIVE TextLen(_)
TextLen(text) == IF text = << >> THEN 0 ELSE PieceLen(Head(text)) + TextLen(Tail(text))

\* the first n characters of one piece, 0 < n < PieceLen(p)
PieceHead(p, n) ==
    IF p.src = "literal" THEN Literal(SubSeq(p.text, 1, n))
    ELSE Slice(p.from, p.from + n - 1)

\* the last n characters of one piece, 0 < n < PieceLen(p)
PieceTail(p, n) ==
    IF p.src = "literal" THEN Literal(SubSeq(p.text, Len(p.text) - n + 1, Len(p.text)))
    ELSE Slice(p.to - n + 1, p.to)

\* text[:n], n >= 0
RECURSIVE TextHead(_, _)
TextHead(text, n) ==
    IF n = 0 \/ text = << >> THEN << >>
    ELSE IF PieceLen(Head(text)) <= n
         THEN <<Head(text)>> \o TextHead(Tail(text), n - PieceLen(Head(text)))
         ELSE <<PieceHead(Head(text), n)>>

\* text[-n:], n > 0
RECURSIVE TextTail(_, _)
TextTail(text, n) ==
    IF n = 0 \/ text = << >> THEN << >>
    ELSE LET last == text[Len(text)]
             init == SubSeq(text, 1, Len(text) - 1)
         IN  IF PieceLen(last) <= n
             THEN TextTail(init, n - PieceLen(last)) \o <<last>>
             ELSE <<PieceTail(last, n)>>

\* an uploaded document of L characters
Document(L) == IF L = 0 THEN << >> ELSE <<Slice(1, L)>>

-----------------------------------------------------------------------------
(* extractor.py: RequirementExtractor.extract_requirements, first part *)

max_chars == 150000

TruncationMarker == "\n\n[...document truncated...]\n\n"

\* Truncate cutting already at the budget
TruncateAtBudget(document_text) ==
    IF TextLen(document_text) >= max_chars
    THEN LET half == max_chars \div 2
         IN  TextHead(document_text, half) \o <<Literal(TruncationMarker)>>
                 \o TextTail(document_text, half)
    ELSE document_text

\* lines 118-122: the text interpolated into the prompt
Truncate(document_text) ==
    IF TextLen(document_text) > max_chars
    THEN LET half == max_chars \div 2
         IN  TextHead(document_text, half) \o <<Literal(TruncationMarker)>>
                 \o TextTail(document_text, half)
    ELSE document_text

\* EXTRACTION_PROMPT.format(document_text=...): the template text before and
\* after the placeholder, abridged to the tags that enclose it
PromptBefore == "Here is the loan document text:\n\n<document>\n"
PromptAfter == "\n</document>\n\nPlease respond with a JSON object in this exact format:"

FormatPrompt(document_text) ==
    <<Literal(PromptBefore)>> \o document_text \o <<Literal(PromptAfter)>>

-----------------------------------------------------------------------------
(* Python exception classes and their base classes: json.JSONDecodeError   *)
(* derives from ValueError; httpx.HTTPStatusError and TimeoutException     *)
(* derive from httpx.HTTPError.                                            *)

BaseClass(exc) ==
    CASE exc = "JSONDecodeError" -> "ValueError"
      [] exc = "HTTPStatusError" -> "HTTPError"
      [] exc = "TimeoutException" -> "HTTPError"
      [] exc = "ConnectError" -> "HTTPError"
      [] exc = "KeyError" -> "LookupError"
      [] OTHER -> "Exception"

\* `except handler:` catches an exception of class exc
Catches(handler, exc) ==
    \/ handler = exc
    \/ handler = BaseClass(exc)
    \/ handler = BaseClass(BaseClass(exc))
    \/ handler = "Exception"

-----------------------------------------------------------------------------
(* Bounds and inputs *)

MaxIndex == 2      \* greatest index handed to one _build_requirement call
MaxReqs == 3       \* greatest number of entries of a payload's requirements
MaxClock == 2      \* readings of datetime.now()

\* c repeated n times
RECURSIVE Rep(_, _)
Rep(c, n) ==
    IF n = 0 THEN ""
    ELSE IF n % 2 = 1 THEN c \o Rep(c, n - 1)
    ELSE LET h == Rep(c, n \div 2) IN h \o h

\* a text of n characters in which no two neighbours are alike
Excerpt(n) == SubSeq(Rep("abcdefg", (n \div 7) + 1), 1, n)

\* a key an entry does not carry
Absent == [t |-> "absent"]
Field(key, v) == IF v = Absent THEN << >> ELSE (key :> v)

\* values the extraction service may send for the keys of one entry
CategoryInputs ==
    {Absent, None, Num(5), Str("insurance"), Str("Tax Escrow"), Str("LEGAL_ENTITY"),
     Str("bogus"), Str("")}
SeverityInputs ==
    {Absent, None, Num(1), Str("high"), Str("CRITICAL"), Str("Very High"), Str("urgent")}
OriginalTextInputs ==
    {Absent, None, Str("Borrower shall insure."), Str(Excerpt(ExcerptCap)),
     Str(Excerpt(ExcerptCap + 1)), Str(Excerpt(ExcerptCap + 120))}
DeadlineInputs ==
    {Absent, None,
     Obj(("description" :> Str("45 days after quarter end")) @@ ("frequency" :> Str("Semi Annual"))),
     Obj("frequency" :> None),
     Obj(("description" :> Str("every other week")) @@ ("frequency" :> Str("Every Fortnight")))}
ThresholdInputs ==
    {Absent,
     Obj(("metric" :> Str("DSCR")) @@ ("operator" :> Str(">=")) @@ ("value" :> Num(1))),
     Obj(("metric" :> Str("LTV")) @@ ("operator" :> Str("between")) @@ ("value" :> Num(60))),
     Obj(("metric" :> Str("LTV")) @@ ("operator" :> Str("between")) @@ ("value" :> Num(60))
         @@ ("secondary_value" :> Num(75)) @@ ("unit" :> Str("%"))),
     Obj(("metric" :> Str("Occupancy")) @@ ("operator" :> Str("approximately")) @@ ("value" :> Num(90)))}
SummaryInputs == {None, Str("Keep the building insured."), Num(7)}

Entry(category, severity, original_text, deadline, threshold) ==
    Obj(Field("title", Str("Insurance")) @@ Field("category", category)
        @@ Field("severity", severity) @@ Field("original_text", original_text)
        @@ Field("deadline", deadline) @@ Field("threshold", threshold))

\* entries that are objects, and entries that are not
ObjectEntries ==
    {Entry(c, s, o, d, th) : c \in CategoryInputs, s \in SeverityInputs,
                             o \in OriginalTextInputs, d \in DeadlineInputs,
                             th \in ThresholdInputs}
\* entries that carry a plain_language_summary
SummaryEntries ==
    {Obj(("plain_language_summary" :> s) @@ Entry(Str("insurance"), sev, Absent, Absent, th).o) :
        s \in SummaryInputs, sev \in {Absent, Str("high")}, th \in ThresholdInputs}
EntryInputs == ObjectEntries \cup SummaryEntries \cup {None, Str("see section 4"), Num(3), Arr(<< >>)}

\* the entries payloads are made of in the checks of _build_loan_profile
PayloadEntries ==
    {Entry(Str("insurance"), Str("high"), Str("Borrower shall insure."), Absent, Absent),
     Entry(Str("bogus"), Str("urgent"), Absent, None, Absent),
     Entry(None, Str("high"), Str("abc"), Absent, Absent),
     Entry(Str("leasing"), Str("low"), None, Absent, Absent),
     Entry(Str("leasing"), Absent, Absent, Obj("frequency" :> None), Absent),
     Str("see section 4")}

RECURSIVE SeqsUpTo(_, _)
SeqsUpTo(S, n) ==
    IF n = 0 THEN {<< >>}
    ELSE LET shorter == SeqsUpTo(S, n - 1)
         IN  shorter \cup {Append(q, e) : q \in {r \in shorter : Len(r) = n - 1}, e \in S}

LoanInfoInputs ==
    {Absent, None, Obj(("property_name" :> Str("1 Main St")) @@ ("loan_amount" :> None))}

PayloadInputs ==
    {Obj(Field("loan_info", li) @@ ("requirements" :> Arr(reqs))) :
        li \in LoanInfoInputs, reqs \in SeqsUpTo(PayloadEntries, MaxReqs)}
    \cup {Obj("loan_info" :> EmptyDict), Obj("requirements" :> None),
          Obj("requirements" :> Str("")), Arr(<< >>)}

LoanIds == {"LOAN-001", "DEMO-1"}

\* credentials: the api_key argument and os.environ.get("ANTHROPIC_API_KEY")
KeyInputs == {None, Str(""), Str("sk-live"), Str("sk-revoked")}
\* the credentials the extraction service accepts
ValidKeys == {Str("sk-live")}

\* lengths of uploaded documents
DocLengths == {0, max_chars, max_chars + 1, 2 * max_chars + 7}

\* payload texts the service may answer with
PayloadTexts ==
    {"{\"loan_info\": {\"property_name\": \"1 Main St\", \"loan_amount\": 5}, \"requirements\": [{\"title\": \"Insurance\", \"category\": \"insurance\", \"severity\": \"high\", \"original_text\": \"Borrower shall insure.\"}]}",
     "{\"loan_info\": {\"property_name\": null}, \"requirements\": [{\"category\": \"Tax Escrow\", \"severity\": \"urgent\"}, {\"category\": \"bogus\", \"deadline\": {\"frequency\": \"Semi Annual\"}}]}",
     "{\"loan_info\": {}, \"requirements\": [{\"title\": \"A\", \"category\": null}, {\"title\": \"B\"}]}",
     "{\"loan_info\": {}, \"requirements\": [{\"title\": \"Notice\", \"original_text\": \"Attach the form as '''text''' to the notice.\"}]}"}

\* the ways the service presents a payload text
Unwrapped(j) == j
Fenced(j) == FenceOpen \o "\n" \o j \o "\n" \o Fence
FencedInProse(j) == "Here are the requirements:\n\n" \o Fenced(j) \o "\n\nLet me know if you need more."
InProse(j) == "Here are the requirements: " \o j \o " Let me know."

ResponseTexts ==
    {Unwrapped(j) : j \in PayloadTexts} \cup {Fenced(j) : j \in PayloadTexts}
    \cup {FencedInProse(j) : j \in PayloadTexts}
    \cup {InProse("{\"requirements\": []}"),
          "I could not find any requirements in this document.",
          "} no payload {",
          "{the document is unreadable}",
          "{\"requirements\": []} (see {section 4})",
          FenceOpen \o "\n" \o Fence,
          FenceOpen \o "\n[1, 2]\n" \o Fence,
          FenceOpen \o "\n{\"requirements\": []}"}

\* _parse_response on each of these texts, computed once
Decoded == [x \in ResponseTexts |-> ParseResponse(x)]

\* what one POST to the service comes back with
ServiceOutcomes ==
    {[kind |-> "ok", text |-> x] : x \in ResponseTexts}
    \cup {[kind |-> "status", code |-> c] : c \in {401, 500}}
    \cup {[kind |-> "timeout"], [kind |-> "network"], [kind |-> "bad_body"]}

-----------------------------------------------------------------------------
(* RequirementExtractor: construction and extract_requirements *)

NotConstructed == [constructed |-> FALSE]
Idle == [pc |-> "idle"]
NoPrev == [present |-> FALSE]
NotRun == [ok |-> FALSE, exc |-> "(not run)"]
NoCall == [done |-> FALSE]

\* Construct without the check of self.api_key
ConstructUnchecked(api_key, env_key, httpx_available) ==
    /\ ctor.state = "none"
    /\ IF ~httpx_available
       THEN /\ ctor' = [state |-> "raised", exc |-> "RuntimeError", api_key |-> api_key,
                        env_key |-> env_key, httpx_available |-> httpx_available]
            /\ UNCHANGED extractor
       ELSE /\ ctor' = [state |-> "constructed"]
            /\ extractor' = [constructed |-> TRUE, api_key |-> OrElse(api_key, env_key),
                             api_url |-> "https://api.anthropic.com/v1/messages",
                             model |-> "claude-sonnet-4-20250514"]
    /\ UNCHANGED <<run, prev, requests, req_in, req_out, prof_in, prof_out, storeVars, unitVars>>

\* RequirementExtractor.__init__(api_key), with the environment's value of
\* ANTHROPIC_API_KEY and whether httpx could be imported
Construct(api_key, env_key, httpx_available) ==
    /\ ctor.state = "none"
    /\ IF ~httpx_available
       THEN /\ ctor' = [state |-> "raised", exc |-> "RuntimeError", api_key |-> api_key,
                        env_key |-> env_key, httpx_available |-> httpx_available]
            /\ UNCHANGED extractor
       ELSE LET key == OrElse(api_key, env_key)
            IN  IF ~Truthy(key)
                THEN /\ ctor' = [state |-> "raised", exc |-> "ValueError", api_key |-> api_key,
                                 env_key |-> env_key, httpx_available |-> httpx_available]
                     /\ UNCHANGED extractor
                ELSE /\ ctor' = [state |-> "constructed"]
                     /\ extractor' = [constructed |-> TRUE, api_key |-> key,
                                      api_url |-> "https://api.anthropic.com/v1/messages",
                                      model |-> "claude-sonnet-4-20250514"]
    /\ UNCHANGED <<run, prev, requests, req_in, req_out, prof_in, prof_out, storeVars, unitVars>>

\* extract_requirements(document_text, loan_id) up to the POST of
\* _call_claude: truncation, prompt, request.  The invocation that ended
\* before it is remembered in prev.
CallClaude(L, loan_id) ==
    /\ extractor.constructed
    /\ run.pc \in {"idle", "done"}
    /\ LET document_text == Document(L)
           prompt == FormatPrompt(Truncate(document_text))
       IN  /\ run' = [pc |-> "awaiting", loan_id |-> loan_id,
                      document_text |-> document_text, prompt |-> prompt]
           /\ requests' = <<[url |-> extractor.api_url, api_key |-> extractor.api_key]>>
    /\ prev' = IF run.pc = "done"
               THEN [present |-> TRUE, loan_id |-> run.loan_id,
                     response |-> run.response, result |-> run.result]
               ELSE prev
    /\ UNCHANGED <<ctor, extractor, req_in, req_out, prof_in, prof_out, storeVars, unitVars>>

\* the rest of _call_claude on the service's answer: raise_for_status,
\* response.json(), result["content"][0]["text"]
ResponseText(response) ==
    CASE response.kind = "ok" -> Return(response.text)
      [] response.kind = "status" -> Raise("HTTPStatusError")
      [] response.kind = "timeout" -> Raise("TimeoutException")
      [] response.kind = "network" -> Raise("ConnectError")
      [] OTHER -> Raise("KeyError")

\* a result whose requirement ids are shifted by offset
Renumbered(result, offset) ==
    IF ~result.ok THEN result
    ELSE LET reqs == result.v.requirements
         IN  Return([result.v EXCEPT !.requirements =
                        [k \in 1..Len(reqs) |->
                            [reqs[k] EXCEPT !.id = RequirementId(k + offset)]]])

\* Respond with the requirement counter kept between invocations
RespondCarryingCount(response, now) ==
    /\ run.pc = "awaiting"
    /\ (response.kind = "status" /\ response.code = 401) <=> (extractor.api_key \notin ValidKeys)
    /\ LET text == ResponseText(response)
           parsed == IF text.ok THEN Decoded[text.v] ELSE NotRun
           carried == IF prev.present /\ prev.result.ok
                      THEN Len(prev.result.v.requirements) ELSE 0
           result == CASE ~text.ok -> text
                       [] ~parsed.ok -> parsed
                       [] OTHER -> Renumbered(BuildLoanProfile(parsed.v, run.loan_id, now), carried)
       IN  run' = [pc |-> "done", loan_id |-> run.loan_id, response |-> response,
                   parsed |-> parsed, result |-> result]
    /\ UNCHANGED <<ctor, extractor, prev, requests, req_in, req_out, prof_in, prof_out, storeVars, unitVars>>

\* Respond posting the request again when the call has failed
RespondRetrying(response, now) ==
    /\ run.pc = "awaiting"
    /\ (response.kind = "status" /\ response.code = 401) <=> (extractor.api_key \notin ValidKeys)
    /\ LET text == ResponseText(response)
           parsed == IF text.ok THEN Decoded[text.v] ELSE NotRun
           result == IF ~parsed.ok THEN parsed
                     ELSE BuildLoanProfile(parsed.v, run.loan_id, now)
       IN  IF text.ok \/ Len(requests) > 1
           THEN /\ run' = [pc |-> "done", loan_id |-> run.loan_id, response |-> response,
                           parsed |-> parsed, result |-> IF text.ok THEN result ELSE text]
                /\ UNCHANGED requests
           ELSE /\ requests' = Append(requests, requests[1])
                /\ UNCHANGED run
    /\ UNCHANGED <<ctor, extractor, prev, req_in, req_out, prof_in, prof_out, storeVars, unitVars>>

\* the rest of extract_requirements once the service has answered:
\* _parse_response, _build_loan_profile, return
Respond(response, now) ==
    /\ run.pc = "awaiting"
    /\ (response.kind = "status" /\ response.code = 401) <=> (extractor.api_key \notin ValidKeys)
    /\ LET text == ResponseText(response)
           parsed == IF text.ok THEN Decoded[text.v] ELSE NotRun
           result == CASE ~text.ok -> text
                       [] ~parsed.ok -> parsed
                       [] OTHER -> BuildLoanProfile(parsed.v, run.loan_id, now)
       IN  run' = [pc |-> "done", loan_id |-> run.loan_id, response |-> response,
                   parsed |-> parsed, result |-> result]
    /\ UNCHANGED <<ctor, extractor, prev, requests, req_in, req_out, prof_in, prof_out, storeVars, unitVars>>

Init ==
    /\ ctor = [state |-> "none"]
    /\ extractor = NotConstructed
    /\ run = Idle
    /\ prev = NoPrev
    /\ requests = << >>
    /\ req_in = NoCall /\ req_out = NoCall
    /\ prof_in = NoCall /\ prof_out = NoCall
    /\ NoStore /\ NoUnit

Next ==
    \/ \E api_key \in KeyInputs, env_key \in KeyInputs, httpx_available \in BOOLEAN :
          Construct(api_key, env_key, httpx_available)
    \/ \E L \in DocLengths, loan_id \in LoanIds : CallClaude(L, loan_id)
    \/ \E response \in ServiceOutcomes, now \in 1..MaxClock : Respond(response, now)

Spec == Init /\ [][Next]_vars

-----------------------------------------------------------------------------
(* One call of _build_requirement on an entry and an index *)

BuildRequirementCall ==
    /\ req_in.done /\ ~req_out.done
    /\ req_out' = [done |-> TRUE, res |-> BuildRequirement(req_in.data, req_in.index)]
    /\ UNCHANGED <<ctor, extractor, run, prev, requests, req_in, prof_in, prof_out, storeVars, unitVars>>

InitRequirement ==
    /\ ctor = [state |-> "none"]
    /\ extractor = NotConstructed
    /\ run = Idle
    /\ prev = NoPrev
    /\ requests = << >>
    /\ \E data \in EntryInputs, index \in 1..MaxIndex :
          req_in = [done |-> TRUE, data |-> data, index |-> index]
    /\ req_out = NoCall
    /\ prof_in = NoCall /\ prof_out = NoCall
    /\ NoStore /\ NoUnit

NextRequirement == BuildRequirementCall

SpecRequirement == InitRequirement /\ [][NextRequirement]_vars

-----------------------------------------------------------------------------
(* One call of _build_loan_profile on a decoded payload and a loan id *)

BuildLoanProfileCall(now) ==
    /\ prof_in.done /\ ~prof_out.done
    /\ prof_out' = [done |-> TRUE, res |-> BuildLoanProfile(prof_in.parsed, prof_in.loan_id, now)]
    /\ UNCHANGED <<ctor, extractor, run, prev, requests, req_in, req_out, prof_in, storeVars, unitVars>>

InitProfile ==
    /\ ctor = [state |-> "none"]
    /\ extractor = NotConstructed
    /\ run = Idle
    /\ prev = NoPrev
    /\ requests = << >>
    /\ req_in = NoCall /\ req_out = NoCall
    /\ \E parsed \in PayloadInputs, loan_id \in LoanIds :
          prof_in = [done |-> TRUE, parsed |-> parsed, loan_id |-> loan_id]
    /\ prof_out = NoCall
    /\ NoStore /\ NoUnit

NextProfile == \E now \in 1..MaxClock : BuildLoanProfileCall(now)

SpecProfile == InitProfile /\ [][NextProfile]_vars

-----------------------------------------------------------------------------
(* Properties *)

\* the lookup string of an enum-valued field: lower case, spaces to underscores
Normalized(s) == ReplaceSpaces(Lower(s))

\* the entry `data` with the value v under key
WithKey(data, key, v) == Obj((key :> v) @@ data)

\* two outcomes of _build_requirement agree, but for the field f
AgreeExcept(a, b, f) ==
    /\ a.ok = b.ok
    /\ IF a.ok THEN [a.v EXCEPT ![f] = b.v[f]] = b.v ELSE a.exc = b.exc

\* the fields of the entry other than category and severity are well formed
SiblingsWellFormed(data) ==
    /\ Get(data, "original_text", Str("")).t = "str"
    /\ ParseDeadline(data).ok
    /\ ParseThreshold(data).ok

\* C1: whatever an entry carries for category and severity (a missing key,
\* null, a number, any string), _build_requirement returns a requirement
\* whose category, severity and status are members of their enums.
C1_EnumFieldsAlwaysValid ==
    (req_out.done /\ req_in.data.t = "obj" /\ SiblingsWellFormed(req_in.data.o)) =>
        /\ req_out.res.ok
        /\ req_out.res.v.category \in RequirementCategory
        /\ req_out.res.v.severity \in Severity
        /\ req_out.res.v.status \in ComplianceStatus

\* C2: a category string that, lower-cased and with spaces replaced by
\* underscores, is no RequirementCategory value gives category OTHER; a
\* severity string that, lower-cased, is no Severity value gives severity
\* MEDIUM; and the call otherwise ends as it would with a valid string in
\* its place: the same exception, or a requirement equal in every other field.
C2_UnknownEnumStringsDefault ==
    (req_out.done /\ req_in.data.t = "obj") =>
        LET data == req_in.data.o
            index == req_in.index
            res == req_out.res
            c == Get(data, "category", Absent)
            s == Get(data, "severity", Absent)
        IN  /\ (c.t = "str" /\ Normalized(c.s) \notin RequirementCategory) =>
                  /\ res.ok => res.v.category = "other"
                  /\ AgreeExcept(res, BuildRequirement(WithKey(data, "category", Str("insurance")), index),
                                 "category")
            /\ (s.t = "str" /\ Lower(s.s) \notin Severity) =>
                  /\ res.ok => res.v.severity = "medium"
                  /\ AgreeExcept(res, BuildRequirement(WithKey(data, "severity", Str("high")), index),
                                 "severity")

\* C2 witness: an entry with an unknown category and an unknown severity was
\* built, with a deadline and an excerpt beside them
C2_Witness ==
    /\ req_out.done /\ req_in.data.t = "obj"
    /\ Get(req_in.data.o, "category", Absent) = Str("bogus")
    /\ Get(req_in.data.o, "severity", Absent) = Str("Very High")
    /\ req_out.res.ok
    /\ req_out.res.v.category = "other" /\ req_out.res.v.severity = "medium"
    /\ req_out.res.v.deadline # None
    /\ req_out.res.v.original_text # Str("")

\* the entries of a payload whose requirements value is a list
EntriesOf(parsed) == Get(parsed.o, "requirements", Arr(<< >>)).a

HasEntryList(parsed) ==
    /\ parsed.t = "obj"
    /\ Get(parsed.o, "loan_info", EmptyDict).t = "obj"
    /\ Get(parsed.o, "requirements", Arr(<< >>)).t = "arr"

\* C3: a malformed entry never keeps the other entries from being built:
\* _build_loan_profile returns a profile that holds the requirement of every
\* entry that can be built.
C3_MalformedEntryNeverAborts ==
    (prof_out.done /\ HasEntryList(prof_in.parsed)) =>
        LET entries == EntriesOf(prof_in.parsed)
        IN  /\ prof_out.res.ok
            /\ \A i \in 1..Len(entries) :
                  LET req == BuildRequirement(entries[i], i)
                  IN  req.ok => \E k \in 1..Len(prof_out.res.v.requirements) :
                                    prof_out.res.v.requirements[k] = req.v

\* "REQ-" followed by k zero-padded to three digits, for k below 1000
PaddedId(k) ==
    LET d == DigitStr(k) IN "REQ-" \o SubSeq("000", 1, 3 - Len(d)) \o d

\* the number an id ends with
IdNumber(id) == StrToNat(SubSeq(id, 5, Len(id)))

\* C4: the profile returned for a payload of N entries has N requirements,
\* the k-th built from the k-th entry with the id REQ-00k, so the ids are
\* pairwise distinct and increase along the sequence.
C4_SequentialIds ==
    (prof_out.done /\ prof_out.res.ok /\ HasEntryList(prof_in.parsed)) =>
        LET entries == EntriesOf(prof_in.parsed)
            reqs == prof_out.res.v.requirements
        IN  /\ Len(reqs) = Len(entries)
            /\ \A k \in 1..Len(reqs) :
                  /\ reqs[k].id = PaddedId(k)
                  /\ reqs[k].title = Get(entries[k].o, "title", Str("Requirement " \o DigitStr(k)))
                  /\ reqs[k].original_text = Get(entries[k].o, "original_text", Str(""))
            /\ \A j, k \in 1..Len(reqs) :
                  j < k => reqs[j].id # reqs[k].id /\ IdNumber(reqs[j].id) < IdNumber(reqs[k].id)

\* C4 witness: a profile of three requirements was returned
C4_Witness ==
    /\ prof_out.done /\ prof_out.res.ok /\ HasEntryList(prof_in.parsed)
    /\ Len(prof_out.res.v.requirements) = 3
    /\ prof_out.res.v.requirements[3].id = "REQ-003"
    /\ prof_out.res.v.requirements[1].category # prof_out.res.v.requirements[2].category

\* C5: a response without a candidate payload fails with one kind of error,
\* a candidate that does not decode with another, and a handler for either
\* kind does not catch the other.
C5_PayloadErrorsDistinct ==
    (run.pc = "done" /\ run.response.kind = "ok") =>
        LET candidate == Candidate(run.response.text)
        IN  /\ ~candidate.found => (~run.parsed.ok /\ run.parsed.exc = "ValueError")
            /\ (candidate.found /\ ~JsonLoads(candidate.group).ok) =>
                  /\ ~run.parsed.ok
                  /\ run.parsed.exc # "ValueError"
                  /\ ~Catches("ValueError", run.parsed.exc)
                  /\ ~Catches(run.parsed.exc, "ValueError")

\* C6: a payload text in a ```json fence, with or without prose around the
\* fence, decodes to what the payload text decodes to when given alone.
C6_FencedParsesAsUnwrapped ==
    (run.pc = "done" /\ run.response.kind = "ok") =>
        \A j \in PayloadTexts :
            run.response.text \in {Fenced(j), FencedInProse(j)} =>
                run.parsed = ParseResponse(Unwrapped(j))

\* two outcomes of extract_requirements agree, but for the extraction date
SameButDate(a, b) ==
    /\ a.ok = b.ok
    /\ IF a.ok THEN [a.v EXCEPT !.extraction_date = 0] = [b.v EXCEPT !.extraction_date = 0]
       ELSE a.exc = b.exc

PromptBody(prompt) == SubSeq(prompt, 2, Len(prompt) - 1)

\* C8: a document of more than 150,000 characters enters the prompt as its
\* first 75,000 characters, the marker, and its last 75,000 characters; a
\* document of at most 150,000 characters enters it unchanged.
C8_TruncationPolicy ==
    run.pc = "awaiting" =>
        LET L == TextLen(run.document_text)
            body == PromptBody(run.prompt)
        IN  /\ Head(run.prompt) = Literal(PromptBefore)
            /\ run.prompt[Len(run.prompt)] = Literal(PromptAfter)
            /\ IF L > 150000
               THEN /\ body = <<Slice(1, 75000), Literal(TruncationMarker), Slice(L - 74999, L)>>
                    /\ TextLen(body) = 150000 + Len(TruncationMarker)
               ELSE body = run.document_text

\* C8 witness: a request is out for a document longer than the budget
C8_Witness ==
    /\ run.pc = "awaiting"
    /\ TextLen(run.document_text) = 150001
    /\ Len(requests) = 1

\* len() of a stored excerpt
ExcerptLen(v) == IF v.t = "str" THEN Len(v.s) ELSE Len(v.a)

\* C9: a stored original_text is at most 500 long; an excerpt string longer
\* than that is stored as its first 500 characters, a shorter one unchanged,
\* and its length never makes the call raise.
C9_ExcerptCapped ==
    (req_out.done /\ req_in.data.t = "obj") =>
        LET data == req_in.data.o
            res == req_out.res
            given == Get(data, "original_text", Absent)
        IN  /\ res.ok => ExcerptLen(res.v.original_text) <= 500
            /\ given.t = "str" =>
                  /\ res.ok => /\ Len(given.s) > 500 => res.v.original_text = Str(SubSeq(given.s, 1, 500))
                               /\ Len(given.s) <= 500 => res.v.original_text = given
                  /\ AgreeExcept(res, BuildRequirement(WithKey(data, "original_text", Str("")), req_in.index),
                                 "original_text")

\* C9 witness: an entry with an excerpt of 501 characters was built
C9_Witness ==
    /\ req_out.done /\ req_in.data.t = "obj"
    /\ Get(req_in.data.o, "original_text", Absent).t = "str"
    /\ Len(Get(req_in.data.o, "original_text", Absent).s) = 501
    /\ req_out.res.ok
    /\ Len(req_out.res.v.original_text.s) = 500

TransportError(kind) ==
    CASE kind = "status" -> "HTTPStatusError"
      [] kind = "timeout" -> "TimeoutException"
      [] kind = "network" -> "ConnectError"

\* C11: one invocation of extract_requirements posts at most one request;
\* when the call fails (network error, timeout, non-2xx status) the invocation
\* ends with that failure, with the one request made and no profile returned.
C11_SingleCallNoRetry ==
    /\ Len(requests) <= 1
    /\ run.pc = "awaiting" => Len(requests) = 1
    /\ (run.pc = "done" /\ run.response.kind \in {"status", "timeout", "network"}) =>
          /\ Len(requests) = 1
          /\ ~run.result.ok
          /\ run.result.exc = TransportError(run.response.kind)
          /\ Catches("HTTPError", run.result.exc)

\* C11 witness: an invocation has ended on a timeout of its only call
C11_Witness ==
    /\ run.pc = "done" /\ run.response.kind = "timeout"
    /\ Len(requests) = 1
    /\ ~run.result.ok /\ run.result.exc = "TimeoutException"

-----------------------------------------------------------------------------
(* models.py: the dataclasses LoanRequirement and LoanProfile; extractor.py: *)
(* MockExtractor                                                             *)

\* a float, as the fraction it is written as
Real(num, den) == [t |-> "float", num |-> num, den |-> den]

\* LoanRequirement(...) with status, last_checked and notes at their defaults
LoanRequirement(id, title, category, description, plain_language_summary, original_text, document_reference, deadline, threshold, severity, cure_period_days) ==
    [id |-> id, title |-> title, category |-> category, description |-> description,
     plain_language_summary |-> plain_language_summary, original_text |-> original_text,
     document_reference |-> document_reference, deadline |-> deadline,
     threshold |-> threshold, severity |-> severity, cure_period_days |-> cure_period_days,
     status |-> "unknown", last_checked |-> None, notes |-> Str("")]

\* the list literal of MockExtractor.extract_requirements
MockRequirements ==
    <<
       LoanRequirement("REQ-001", Str("Quarterly Financial Statements"), "financial_reporting",
           Str("Borrower must deliver quarterly unaudited financial statements"),
           Str("Send your quarterly financial statements to the lender within 45 days after each quarter ends"),
           Str("Borrower shall deliver to Lender within forty-five (45) days after the end of each fiscal quarter..."),
           Str("Section 5.1.1"),
           Deadline(Str("45 days after quarter end"), Num(45), None, "quarterly"),
           None,
           "high", None),
       LoanRequirement("REQ-002", Str("Annual Audited Financials"), "financial_reporting",
           Str("Borrower must deliver annual audited financial statements"),
           Str("Have a CPA audit your financials and send the report within 120 days after year end"),
           Str("Borrower shall deliver to Lender within one hundred twenty (120) days after the end of each fiscal year, audited financial statements..."),
           Str("Section 5.1.2"),
           Deadline(Str("120 days after fiscal year end"), Num(120), None, "annual"),
           None,
           "critical", None),
       LoanRequirement("REQ-003", Str("DSCR Covenant"), "covenant_compliance",
           Str("Maintain minimum Debt Service Coverage Ratio"),
           Str("Your property's net operating income divided by your loan payments must be at least 1.25x"),
           Str("Borrower shall maintain a Debt Service Coverage Ratio of not less than 1.25:1.00..."),
           Str("Section 6.2"),
           Deadline(Str("Tested quarterly"), None, None, "quarterly"),
           Threshold(Str("DSCR"), Str(">="), Real(5, 4), None, Str("x")),
           "critical", Num(30)),
       LoanRequirement("REQ-004", Str("Property Insurance"), "insurance",
           Str("Maintain property insurance with specified coverage"),
           Str("Keep your property insured for full replacement cost. Send proof to lender before each renewal."),
           Str("Borrower shall maintain property insurance in an amount not less than the full replacement cost..."),
           Str("Section 4.1"),
           Deadline(Str("30 days before policy expiration"), None, None, "annual"),
           None,
           "critical", None),
       LoanRequirement("REQ-005", Str("Replacement Reserve Deposits"), "reserve_funding",
           Str("Monthly deposits to replacement reserve"),
           Str("Deposit $2,500 monthly into your replacement reserve account"),
           Str("Borrower shall deposit with Lender on each Payment Date the sum of $2,500..."),
           Str("Section 7.3"),
           Deadline(Str("Monthly with mortgage payment"), None, Num(1), "monthly"),
           Threshold(Str("Monthly Deposit"), Str(">="), Num(2500), None, Str("$")),
           "medium", None),
       LoanRequirement("REQ-006", Str("Monthly Rent Roll"), "financial_reporting",
           Str("Submit monthly rent roll"),
           Str("Send a current rent roll showing all tenants, lease terms, and rental rates by the 15th of each month"),
           Str("Borrower shall deliver to Lender by the fifteenth (15th) day of each calendar month a current rent roll..."),
           Str("Section 5.1.4"),
           Deadline(Str("By the 15th of each month"), None, Num(15), "monthly"),
           None,
           "medium", None),
       LoanRequirement("REQ-007", Str("Major Lease Approval"), "leasing",
           Str("Lender approval required for major leases"),
           Str("Get lender approval before signing any lease over 10,000 SF or with a tenant getting more than 3 months free rent"),
           Str("Borrower shall not enter into any lease for more than 10,000 square feet or containing concessions in excess of three (3) months free rent without Lender's prior written consent..."),
           Str("Section 8.2"),
           Deadline(Str("Prior to lease execution"), None, None, "as_needed"),
           None,
           "high", None),
       LoanRequirement("REQ-008", Str("Annual Operating Budget"), "financial_reporting",
           Str("Submit annual operating budget"),
           Str("Submit next year's operating budget for lender approval by November 15th each year"),
           Str("Not later than November 15 of each year, Borrower shall submit to Lender for approval the proposed annual operating budget..."),
           Str("Section 5.1.5"),
           Deadline(Str("November 15 annually"), None, None, "annual"),
           None,
           "medium", None)
    >>

\* MockExtractor.extract_requirements(document_text, loan_id), the clock
\* reading `now`: the document text is not looked at
MockExtractRequirements(document_text, loan_id, now) ==
    Return(
        [loan_id |-> loan_id,
         loan_name |-> "Sample Loan " \o loan_id,
         property_name |-> Str("123 Main Street Office Building"),
         borrower_name |-> Str("Sample Borrower LLC"),
         lender_name |-> Str("Sample Bank, N.A."),
         original_loan_amount |-> Num(10000000),
         current_balance |-> None,
         origination_date |-> Str("2024-01-15"),
         maturity_date |-> Str("2029-01-15"),
         requirements |-> MockRequirements,
         events |-> << >>,
         source_documents |-> << >>,
         extraction_date |-> now])

\* RequirementExtractor.extract_requirements on the service's answer
ExtractRequirements(response, loan_id, now) ==
    LET text == ResponseText(response)
        parsed == IF text.ok THEN Decoded[text.v] ELSE NotRun
    IN  CASE ~text.ok -> text
          [] ~parsed.ok -> parsed
          [] OTHER -> BuildLoanProfile(parsed.v, loan_id, now)

-----------------------------------------------------------------------------
(* Python objects.  A LoanRequirement is a mutable object: the model keeps   *)
(* the objects alive in a heap, object identity -> field values, and a       *)
(* profile's requirements list holds identities.                             *)

\* the n smallest identities not in use, in increasing order
FreshIds(heap, n) ==
    LET free == (1..(Cardinality(DOMAIN heap) + n)) \ DOMAIN heap
    IN  [k \in 1..n |-> CHOOSE i \in free : Cardinality({j \in free : j < i}) = k - 1]

\* the heap with the values put under the identities ids
Extend(heap, ids, values) ==
    [i \in DOMAIN heap \cup {ids[k] : k \in 1..Len(ids)} |->
        IF i \in DOMAIN heap THEN heap[i]
        ELSE values[CHOOSE k \in 1..Len(ids) : ids[k] = i]]

\* Allocate handing out an object already alive when its fields are equal
AllocateShared(heap, profile) ==
    LET reqs == profile.requirements
        known(k) == {i \in DOMAIN heap : heap[i] = reqs[k]}
        new == {k \in 1..Len(reqs) : known(k) = {}}
        fresh == FreshIds(heap, Cardinality(new))
        ids == [k \in 1..Len(reqs) |->
                   IF k \in new THEN fresh[Cardinality({j \in new : j <= k})]
                   ELSE CHOOSE i \in known(k) : TRUE]
    IN  [heap |-> [i \in DOMAIN heap \cup {ids[k] : k \in 1..Len(ids)} |->
                      IF i \in DOMAIN heap THEN heap[i]
                      ELSE reqs[CHOOSE k \in 1..Len(ids) : ids[k] = i]],
         profile |-> [profile EXCEPT !.requirements = ids]]

\* the LoanRequirement(...) calls that build a profile: each makes a new
\* object, and the profile's list holds the objects
Allocate(heap, profile) ==
    LET ids == FreshIds(heap, Len(profile.requirements))
    IN  [heap |-> Extend(heap, ids, profile.requirements),
         profile |-> [profile EXCEPT !.requirements = ids]]

\* the profile with its requirement objects read out of the heap
Deref(heap, profile) ==
    [profile EXCEPT !.requirements = [k \in 1..Len(@) |-> heap[@[k]]]]

-----------------------------------------------------------------------------
(* Invocations of MockExtractor.extract_requirements, whose results the      *)
(* caller keeps and writes to                                                *)

MaxMockCalls == 2    \* invocations of the mock extractor

\* the requirements of a result the caller writes to
WrittenIndexes == {1, 8}

\* profile = MockExtractor().extract_requirements(document_text, loan_id)
MockCall(L, loan_id, now) ==
    /\ call.op = "mock"
    /\ Len(call.results) < MaxMockCalls
    /\ LET result == MockExtractRequirements(Document(L), loan_id, now)
           made == Allocate(objects, result.v)
       IN  /\ objects' = made.heap
           /\ call' = [call EXCEPT !.args = Append(@, [document_length |-> L, loan_id |-> loan_id]),
                                   !.results = Append(@, made.profile),
                                   !.written = Append(@, [i \in WrittenIndexes |-> "unknown"])]
    /\ UNCHANGED <<ctor, extractor, run, prev, requests, req_in, req_out, prof_in, prof_out,
                   server, loan_profiles, db, handled, subject>>

\* the caller's  results[k].requirements[i].status = ComplianceStatus(status)
WriteStatus(k, i, status) ==
    /\ call.op = "mock"
    /\ k \in 1..Len(call.results)
    /\ call.written[k][i] = "unknown"
    /\ objects' = [objects EXCEPT ![call.results[k].requirements[i]].status = status]
    /\ call' = [call EXCEPT !.written[k][i] = status]
    /\ UNCHANGED <<ctor, extractor, run, prev, requests, req_in, req_out, prof_in, prof_out,
                   server, loan_profiles, db, handled, subject>>

InitMock ==
    /\ ctor = [state |-> "none"]
    /\ extractor = NotConstructed
    /\ run = Idle
    /\ prev = NoPrev
    /\ requests = << >>
    /\ req_in = NoCall /\ req_out = NoCall
    /\ prof_in = NoCall /\ prof_out = NoCall
    /\ NoStore
    /\ subject = [t |-> "none"]
    /\ call = [op |-> "mock", args |-> << >>, results |-> << >>, written |-> << >>]

\* lengths of the documents handed to the mock extractor
MockDocLengths == {0, max_chars + 1}

NextMock ==
    \/ \E L \in MockDocLengths, loan_id \in LoanIds, now \in 1..MaxClock : MockCall(L, loan_id, now)
    \/ \E k \in 1..MaxMockCalls, i \in WrittenIndexes : WriteStatus(k, i, "compliant")

SpecMock == InitMock /\ [][NextMock]_vars

\* C13: whatever the document text, the mock extractor's result for loan id
\* X has loan_id X, property name "123 Main Street Office Building" and the
\* requirements REQ-001 to REQ-008 in that order; results are equal but for
\* loan id, loan name and extraction date; no two results hold the same
\* object, and a requirement reads as the sample value with the status its
\* own holder wrote, whatever was written to the other results.
C13_MockExtractorFixedProfile ==
    call.op = "mock" =>
        LET results == call.results IN
        /\ \A k \in 1..Len(results) :
              LET profile == Deref(objects, results[k])
              IN  /\ profile.loan_id = call.args[k].loan_id
                  /\ profile.property_name = Str("123 Main Street Office Building")
                  /\ Len(profile.requirements) = 8
                  /\ \A i \in 1..8 :
                        /\ profile.requirements[i].id = PaddedId(i)
                        /\ i \in WrittenIndexes =>
                              profile.requirements[i].status = call.written[k][i]
                        /\ i \notin WrittenIndexes => profile.requirements[i].status = "unknown"
                  /\ \A i, j \in 1..8 : i # j => results[k].requirements[i] # results[k].requirements[j]
        /\ \A k, m \in 1..Len(results) :
              k # m =>
                  /\ \A i, j \in 1..8 : results[k].requirements[i] # results[m].requirements[j]
                  /\ LET a == Deref(objects, results[k])
                         b == Deref(objects, results[m])
                     IN  /\ [a EXCEPT !.requirements = << >>, !.loan_id = "", !.loan_name = "",
                                      !.extraction_date = 0]
                            = [b EXCEPT !.requirements = << >>, !.loan_id = "", !.loan_name = "",
                                        !.extraction_date = 0]
                         /\ a.loan_id = b.loan_id => a.loan_name = b.loan_name
                         /\ \A i \in 1..8 :
                               [a.requirements[i] EXCEPT !.status = "unknown"]
                                   = [b.requirements[i] EXCEPT !.status = "unknown"]

\* C13 witness: two results for different documents, one of them written to
C13_Witness ==
    /\ call.op = "mock" /\ Len(call.results) = 2
    /\ call.written[1][1] = "compliant" /\ call.written[2][1] = "unknown"
    /\ objects[call.results[1].requirements[1]].status = "compliant"
    /\ objects[call.results[2].requirements[1]].status = "unknown"
    /\ call.args[1].loan_id = call.args[2].loan_id
    /\ call.args[1].document_length # call.args[2].document_length
    /\ call.results[1].extraction_date # call.results[2].extraction_date

-----------------------------------------------------------------------------
(* Python floats: IEEE 754 binary64.  A positive float is m * 2^e, its      *)
(* significand m a sequence of Precision bits, the most significant first   *)
(* and equal to 1; zero has the empty significand.  Division and            *)
(* multiplication round the exact result to the nearest float, ties to the  *)
(* even significand.                                                        *)

Precision == 53

FloatZero == [m |-> << >>, e |-> 0]

\* bits + 1
RECURSIVE Increment(_)
Increment(bits) ==
    IF bits = << >> THEN <<1>>
    ELSE IF bits[Len(bits)] = 0 THEN [bits EXCEPT ![Len(bits)] = 1]
    ELSE Increment(SubSeq(bits, 1, Len(bits) - 1)) \o <<0>>

\* the natural number n in binary, and back
RECURSIVE NatBits(_)
NatBits(n) == IF n = 0 THEN << >> ELSE NatBits(n \div 2) \o <<n % 2>>

RECURSIVE BitsToNat(_)
BitsToNat(bits) ==
    IF bits = << >> THEN 0
    ELSE 2 * BitsToNat(SubSeq(bits, 1, Len(bits) - 1)) + bits[Len(bits)]

\* bits * 2^e, with bits[1] = 1 and whatever lies below the last bit summed
\* up in `inexact`, rounded to Precision bits
RoundToFloat(bits, e, inexact) ==
    IF Len(bits) <= Precision
    THEN [m |-> bits \o [i \in 1..(Precision - Len(bits)) |-> 0],
          e |-> e - (Precision - Len(bits))]
    ELSE LET keep == SubSeq(bits, 1, Precision)
             dropped == Len(bits) - Precision
             half == bits[Precision + 1] = 1
             sticky == inexact \/ \E i \in (Precision + 2)..Len(bits) : bits[i] = 1
             up == half /\ (sticky \/ keep[Precision] = 1)
             raised == Increment(keep)
         IN  IF ~up THEN [m |-> keep, e |-> e + dropped]
             ELSE IF Len(raised) > Precision
                  THEN [m |-> SubSeq(raised, 1, Precision), e |-> e + dropped + 1]
                  ELSE [m |-> raised, e |-> e + dropped]

\* the first k bits of the binary fraction r / d, r < d
RECURSIVE DivBits(_, _, _)
DivBits(r, d, k) ==
    IF k = 0 THEN << >>
    ELSE IF 2 * r >= d THEN <<1>> \o DivBits(2 * r - d, d, k - 1)
    ELSE <<0>> \o DivBits(2 * r, d, k - 1)

\* what remains of r after the first k bits of r / d
RECURSIVE DivRest(_, _, _)
DivRest(r, d, k) ==
    IF k = 0 \/ r = 0 THEN r ELSE DivRest((2 * r) % d, d, k - 1)

\* bits * k + carry, k a small natural number
RECURSIVE MulBits(_, _, _)
MulBits(bits, k, carry) ==
    IF bits = << >> THEN NatBits(carry)
    ELSE LET v == bits[Len(bits)] * k + carry
             rest == SubSeq(bits, 1, Len(bits) - 1)
         IN  IF v < 2 THEN MulBits(rest, k, 0) \o <<v>>
             ELSE MulBits(rest, k, v \div 2) \o <<v % 2>>

\* float(n) / d for natural numbers n and d > 0
FloatDiv(n, d) ==
    IF n = 0 THEN FloatZero
    ELSE LET up == CHOOSE k \in 0..30 : n < d * 2^k /\ (k = 0 \/ n >= d * 2^(k - 1))
             dd == d * 2^up
             z == CHOOSE k \in 0..30 : 2 * n * 2^k >= dd /\ (k = 0 \/ 2 * n * 2^(k - 1) < dd)
             q == DivBits(n * 2^z, dd, Precision + 1)
             inexact == DivRest(n * 2^z, dd, Precision + 1) # 0
         IN  RoundToFloat(q, up - z - (Precision + 1), inexact)

\* x * k for a float x and a natural number k > 0
FloatMul(x, k) ==
    IF x.m = << >> THEN FloatZero
    ELSE RoundToFloat(MulBits(x.m, k, 0), x.e, FALSE)

\* int(x): the integer part
FloatToInt(x) ==
    IF x.m = << >> \/ -x.e >= Len(x.m) THEN 0
    ELSE IF x.e >= 0 THEN BitsToNat(x.m) * 2^x.e
    ELSE BitsToNat(SubSeq(x.m, 1, Len(x.m) + x.e))

-----------------------------------------------------------------------------
(* database.py: Loan.calculate_compliance_score *)

\* len([r for r in self.requirements if r.status == status])
CountStatus(requirements, status) ==
    Cardinality({k \in 1..Len(requirements) : requirements[k].status = status})

\* calculate_compliance_score on the loan's requirement rows
CalculateComplianceScore(requirements) ==
    IF Len(requirements) = 0 THEN 100
    ELSE LET total == Len(requirements)
             compliant == CountStatus(requirements, "compliant")
             at_risk == CountStatus(requirements, "at_risk")
             \* compliant + at_risk * 0.5 is exact: a multiple of one half
             score == FloatMul(FloatDiv(2 * compliant + at_risk, 2 * total), 100)
         IN  FloatToInt(score)

-----------------------------------------------------------------------------
(* calculate_compliance_score called on a loan whose requirement rows hold  *)
(* any numbers of compliant, at_risk and other statuses                     *)

MaxScoreRows == 25

\* the statuses that earn no credit, as the rows carry them
OtherStatuses == {"non_compliant", "pending"}

\* T rows: C compliant, A at_risk, the remaining ones of another status
StatusRows(C, A, T, other) ==
    [k \in 1..T |-> [requirement_id |-> PaddedId(k),
                     status |-> IF k <= C THEN "compliant"
                                ELSE IF k <= C + A THEN "at_risk"
                                ELSE other]]

\* nothing of the extraction pipeline has run
NoPipeline ==
    /\ ctor = [state |-> "none"]
    /\ extractor = NotConstructed
    /\ run = Idle
    /\ prev = NoPrev
    /\ requests = << >>
    /\ req_in = NoCall /\ req_out = NoCall
    /\ prof_in = NoCall /\ prof_out = NoCall

InitScore ==
    /\ NoPipeline /\ NoStore
    /\ \E T \in 0..MaxScoreRows : \E C \in 0..T : \E A \in 0..(T - C) : \E other \in OtherStatuses :
          subject = [t |-> "Loan", requirements |-> StatusRows(C, A, T, other)]
    /\ call = [op |-> "calculate_compliance_score", pc |-> "called"]

\* loan.calculate_compliance_score()
ScoreCall ==
    /\ call.op = "calculate_compliance_score" /\ call.pc = "called"
    /\ call' = [op |-> "calculate_compliance_score", pc |-> "returned",
                result |-> CalculateComplianceScore(subject.requirements)]
    /\ UNCHANGED <<ctor, extractor, run, prev, requests, req_in, req_out, prof_in, prof_out,
                   storeVars, subject>>

NextScore == ScoreCall

SpecScore == InitScore /\ [][NextScore]_vars

\* C16: calculate_compliance_score returns 100 for a loan without
\* requirements and otherwise floor((200*C + 100*A) / (2*T)), T the number
\* of requirements, C those compliant and A those at_risk; for the statuses
\* compliant, compliant, at_risk, non_compliant it returns 62.
C16_ScoreIsExactFloor ==
    (call.op = "calculate_compliance_score" /\ call.pc = "returned") =>
        LET T == Len(subject.requirements)
            C == CountStatus(subject.requirements, "compliant")
            A == CountStatus(subject.requirements, "at_risk")
        IN  /\ T = 0 => call.result = 100
            /\ T > 0 => call.result = (200 * C + 100 * A) \div (2 * T)
            /\ subject.requirements = StatusRows(2, 1, 4, "non_compliant") => call.result = 62

-----------------------------------------------------------------------------
(* models.py: the methods of LoanProfile.  A profile's requirements are     *)
(* objects of the heap; a method reads them and returns a new value.        *)

\* ComplianceEvent(...) with submitted_by and documents at their defaults
ComplianceEvent(requirement_id, event_date, event_type, description) ==
    [t |-> "ComplianceEvent", requirement_id |-> requirement_id, event_date |-> event_date,
     event_type |-> event_type, description |-> description,
     submitted_by |-> None, documents |-> << >>]

\* datetime.isoformat() of the clock reading `at`: a str
Timestamp(at) == [t |-> "str", at |-> at]

\* Deadline.to_dict
DeadlineToDict(d) ==
    Obj(("description" :> d.description)
        @@ ("days_after_period_end" :> d.days_after_period_end)
        @@ ("specific_date" :> d.specific_date)
        @@ ("day_of_month" :> d.day_of_month)
        @@ ("frequency" :> Str(d.frequency)))

\* Threshold.to_dict
ThresholdToDict(th) ==
    Obj(("metric" :> th.metric) @@ ("operator" :> th.operator) @@ ("value" :> th.value)
        @@ ("secondary_value" :> th.secondary_value) @@ ("unit" :> th.unit))

\* LoanRequirement.to_dict
RequirementToDict(r) ==
    Obj(("id" :> Str(r.id))
        @@ ("title" :> r.title)
        @@ ("category" :> Str(r.category))
        @@ ("description" :> r.description)
        @@ ("plain_language_summary" :> r.plain_language_summary)
        @@ ("original_text" :> r.original_text)
        @@ ("document_reference" :> r.document_reference)
        @@ ("deadline" :> IF r.deadline.t # "null" THEN DeadlineToDict(r.deadline) ELSE None)
        @@ ("threshold" :> IF r.threshold.t # "null" THEN ThresholdToDict(r.threshold) ELSE None)
        @@ ("severity" :> Str(r.severity))
        @@ ("cure_period_days" :> r.cure_period_days)
        @@ ("status" :> Str(r.status))
        @@ ("last_checked" :> r.last_checked)
        @@ ("notes" :> r.notes))

\* ComplianceEvent.to_dict
EventToDict(e) ==
    Obj(("requirement_id" :> Str(e.requirement_id))
        @@ ("event_date" :> e.event_date)
        @@ ("event_type" :> Str(e.event_type))
        @@ ("description" :> e.description)
        @@ ("submitted_by" :> e.submitted_by)
        @@ ("documents" :> Arr(e.documents)))

\* LoanProfile.to_dict
ToDict(heap, profile) ==
    Obj(("loan_id" :> Str(profile.loan_id))
        @@ ("loan_name" :> Str(profile.loan_name))
        @@ ("property_name" :> profile.property_name)
        @@ ("borrower_name" :> profile.borrower_name)
        @@ ("lender_name" :> profile.lender_name)
        @@ ("original_loan_amount" :> profile.original_loan_amount)
        @@ ("current_balance" :> profile.current_balance)
        @@ ("origination_date" :> profile.origination_date)
        @@ ("maturity_date" :> profile.maturity_date)
        @@ ("requirements" :> Arr([k \in 1..Len(profile.requirements) |->
                                      RequirementToDict(heap[profile.requirements[k]])]))
        @@ ("events" :> Arr([k \in 1..Len(profile.events) |-> EventToDict(profile.events[k])]))
        @@ ("source_documents" :> Arr(profile.source_documents))
        @@ ("extraction_date" :> Timestamp(profile.extraction_date)))

\* LoanProfile(**mapping): the generated constructor stores every argument
\* as it is given
LoanProfileFromKeywords(mapping) ==
    [loan_id |-> mapping["loan_id"].s,
     loan_name |-> mapping["loan_name"].s,
     property_name |-> mapping["property_name"],
     borrower_name |-> mapping["borrower_name"],
     lender_name |-> mapping["lender_name"],
     original_loan_amount |-> mapping["original_loan_amount"],
     current_balance |-> mapping["current_balance"],
     origination_date |-> mapping["origination_date"],
     maturity_date |-> mapping["maturity_date"],
     requirements |-> mapping["requirements"].a,
     events |-> mapping["events"].a,
     source_documents |-> mapping["source_documents"].a,
     extraction_date |-> mapping["extraction_date"].at]

\* s back to front
Reverse(s) == [k \in 1..Len(s) |-> s[Len(s) + 1 - k]]

\* get_requirements_by_category returning the matches latest first
GetRequirementsByCategoryReversed(heap, profile, category) ==
    Reverse(SelectSeq(profile.requirements, LAMBDA i : heap[i].category = category))

\* LoanProfile.get_requirements_by_category: the list of the matching objects
GetRequirementsByCategory(heap, profile, category) ==
    SelectSeq(profile.requirements, LAMBDA i : heap[i].category = category)

\* compliance_summary with the severity counted under critical_items left open
SummaryCounting(heap, profile, severity) ==
    LET reqs == Deref(heap, profile).requirements
        status_counts ==
            [status \in ComplianceStatus |->
                Num(Len(SelectSeq(reqs, LAMBDA r : r.status = status)))]
        category_counts ==
            [cat \in RequirementCategory |->
                Num(Len(SelectSeq(reqs, LAMBDA r : r.category = cat)))]
    IN  Obj(("total_requirements" :> Num(Len(reqs)))
            @@ ("by_status" :> Obj(status_counts))
            @@ ("by_category" :> Obj(category_counts))
            @@ ("critical_items" :> Num(Len(SelectSeq(reqs, LAMBDA r : r.severity = severity))))
            @@ ("non_compliant_count" :> Get(status_counts, "non_compliant", Num(0)))
            @@ ("at_risk_count" :> Get(status_counts, "at_risk", Num(0))))

\* compliance_summary counting the requirements of severity high
ComplianceSummaryOfHigh(heap, profile) == SummaryCounting(heap, profile, "high")

\* LoanProfile.compliance_summary
ComplianceSummary(heap, profile) == SummaryCounting(heap, profile, "critical")

-----------------------------------------------------------------------------
(* The methods called on profiles of up to MaxHeld requirements *)

MaxHeld == 3

\* requirements as an extraction builds them, with statuses written since
SampleRequirements ==
    {[MockRequirements[1] EXCEPT !.status = "compliant"],
     [MockRequirements[2] EXCEPT !.status = "non_compliant"],
     [MockRequirements[2] EXCEPT !.status = "at_risk", !.last_checked = Timestamp(1)],
     [MockRequirements[3] EXCEPT !.status = "at_risk", !.notes = Str("waiver requested")],
     MockRequirements[5]}

SampleEvents ==
    {<< >>,
     <<ComplianceEvent("REQ-001", Str("2024-05-10"), "submission", Str("Q1 statements sent"))>>}

InitModels ==
    /\ NoPipeline
    /\ server = "none" /\ loan_profiles = << >> /\ db = EmptyDb /\ handled = [op |-> "none"]
    /\ \E n \in 0..MaxHeld : \E reqs \in [1..n -> SampleRequirements] : \E events \in SampleEvents :
          LET base == MockExtractRequirements(Document(0), "LOAN-001", 1).v
              made == Allocate(<< >>, [base EXCEPT !.requirements = reqs, !.events = events,
                                                   !.source_documents = <<Str("loan.pdf")>>])
          IN  /\ objects = made.heap
              /\ subject = [t |-> "LoanProfile", v |-> made.profile]
    /\ call = [op |-> "none"]

\* profile.compliance_summary()
SummaryCall ==
    /\ subject.t = "LoanProfile"
    /\ call' = [op |-> "compliance_summary", result |-> ComplianceSummary(objects, subject.v)]
    /\ UNCHANGED <<ctor, extractor, run, prev, requests, req_in, req_out, prof_in, prof_out,
                   storeVars, subject>>

\* profile.get_requirements_by_category(category)
ByCategoryCall(category) ==
    /\ subject.t = "LoanProfile"
    /\ call' = [op |-> "get_requirements_by_category", category |-> category,
                result |-> GetRequirementsByCategory(objects, subject.v, category)]
    /\ UNCHANGED <<ctor, extractor, run, prev, requests, req_in, req_out, prof_in, prof_out,
                   storeVars, subject>>

\* profile.to_dict()
ToDictCall ==
    /\ subject.t = "LoanProfile"
    /\ call' = [op |-> "to_dict", result |-> ToDict(objects, subject.v)]
    /\ UNCHANGED <<ctor, extractor, run, prev, requests, req_in, req_out, prof_in, prof_out,
                   storeVars, subject>>

\* LoanProfile(**mapping) on the mapping to_dict has returned
RebuildCall ==
    /\ call.op = "to_dict"
    /\ call' = [op |-> "LoanProfile", mapping |-> call.result,
                result |-> LoanProfileFromKeywords(call.result.o)]
    /\ UNCHANGED <<ctor, extractor, run, prev, requests, req_in, req_out, prof_in, prof_out,
                   storeVars, subject>>

NextModels ==
    \/ SummaryCall
    \/ \E category \in RequirementCategory : ByCategoryCall(category)
    \/ ToDictCall
    \/ RebuildCall

SpecModels == InitModels /\ [][NextModels]_vars

\* the requirements of the profile under test, as values
Held == Deref(objects, subject.v).requirements

\* how many of the requirements reqs have the value v in the field f
Having(reqs, f, v) == Cardinality({k \in 1..Len(reqs) : reqs[k][f] = v})

\* the summary holds a breakdown over `members`: a mapping with one key for
\* each member, under it the number of requirements whose field f is it
HasBreakdown(summary, members, f) ==
    \E key \in DOMAIN summary.o :
        /\ summary.o[key].t = "obj"
        /\ DOMAIN summary.o[key].o = members
        /\ \A member \in members : summary.o[key].o[member] = Num(Having(Held, f, member))

\* C14: the summary of every profile holds a count for each member of
\* ComplianceStatus, of Severity and of RequirementCategory, zero for a
\* member no requirement has, each the number of requirements having it.
C14_CountsForEveryEnumMember ==
    call.op = "compliance_summary" =>
        /\ HasBreakdown(call.result, ComplianceStatus, "status")
        /\ HasBreakdown(call.result, Severity, "severity")
        /\ HasBreakdown(call.result, RequirementCategory, "category")

\* C15: compliance_summary() returns total_requirements, critical_items,
\* non_compliant_count and at_risk_count equal to the numbers of
\* requirements, of those of severity critical, of those non_compliant and
\* of those at_risk; for a profile without requirements these and every
\* count by status and by category are 0.
C15_SummaryTotals ==
    call.op = "compliance_summary" =>
        LET summary == call.result.o
        IN  /\ summary["total_requirements"] = Num(Len(Held))
            /\ summary["critical_items"] = Num(Having(Held, "severity", "critical"))
            /\ summary["non_compliant_count"] = Num(Having(Held, "status", "non_compliant"))
            /\ summary["at_risk_count"] = Num(Having(Held, "status", "at_risk"))
            /\ Len(Held) = 0 =>
                  /\ \A key \in {"total_requirements", "critical_items", "non_compliant_count",
                                 "at_risk_count"} : summary[key] = Num(0)
                  /\ \A status \in ComplianceStatus : summary["by_status"].o[status] = Num(0)
                  /\ \A cat \in RequirementCategory : summary["by_category"].o[cat] = Num(0)

\* C15 witness: the summary of a profile of three requirements, among them
\* critical, high, non_compliant and at_risk ones, was returned
C15_Witness ==
    /\ call.op = "compliance_summary"
    /\ Len(Held) = 3
    /\ Having(Held, "severity", "critical") = 2 /\ Having(Held, "severity", "high") = 1
    /\ call.result.o["critical_items"] = Num(2)
    /\ call.result.o["non_compliant_count"] = Num(1)
    /\ call.result.o["at_risk_count"] = Num(1)

\* the position of the object i in the list s
PositionIn(s, i) == CHOOSE k \in 1..Len(s) : s[k] = i

\* C17: get_requirements_by_category(c) returns exactly the requirement
\* objects of the profile whose category is c, each once and in the order
\* the profile holds them, and the call changes neither the profile nor any
\* of its requirements.
C17_ByCategoryIsOrderedSubsequence ==
    /\ [](call.op = "get_requirements_by_category" =>
             LET held == subject.v.requirements
                 result == call.result
             IN  /\ \A k \in 1..Len(held) :
                        (objects[held[k]].category = call.category)
                            <=> (\E j \in 1..Len(result) : result[j] = held[k])
                 /\ \A j \in 1..Len(result) : \E k \in 1..Len(held) : held[k] = result[j]
                 /\ \A i, j \in 1..Len(result) :
                        i < j => PositionIn(held, result[i]) < PositionIn(held, result[j]))
    /\ [][call'.op = "get_requirements_by_category" => (subject' = subject /\ objects' = objects)]_vars

\* C17 witness: two of three requirements were returned, the one between
\* them left out
C17_Witness ==
    /\ call.op = "get_requirements_by_category"
    /\ Len(subject.v.requirements) = 3
    /\ call.result = <<subject.v.requirements[1], subject.v.requirements[3]>>
    /\ Held[1] # Held[3]

\* C20: the profile built from the mapping to_dict returned is equal to
\* the profile serialized, in every field.
C20_ToDictRoundTrip ==
    call.op = "LoanProfile" => call.result = Deref(objects, subject.v)

-----------------------------------------------------------------------------
(* The loan store.  api.py keeps the profiles in the loan_profiles          *)
(* registry, their requirements being objects of the heap; api_v2.py keeps  *)
(* rows in the tables of the database.  A server handles one request at a   *)
(* time; handled holds the request handled last and how it was answered.    *)

MaxRequests == 3

\* the clerk ids of the users that send requests
Users == {"user_a", "user_b"}

\* s.lower().endswith(suffix)
LowerEndsWith(s, suffix) ==
    /\ Len(s) >= Len(suffix)
    /\ SubSeq(Lower(s), Len(s) - Len(suffix) + 1, Len(s)) = suffix

\* k as three digits or more, zero padded
Pad3(k) == LET d == DigitStr(k) IN SubSeq("000", 1, 3 - Len(d)) \o d

\* f"LOAN-{datetime.now().strftime('%Y%m%d%H%M%S')}", the clock counting seconds
StampedId(now) == "LOAN-202401011200" \o SubSeq("00", 1, 2 - Len(DigitStr(now))) \o DigitStr(now)

\* datetime.fromisoformat(value)
FromIsoFormat(value) ==
    IF value.t # "str" THEN Raise("TypeError")
    ELSE IF value.s \in {"2024-01-15", "2029-01-15"} THEN Return([t |-> "datetime", iso |-> value.s])
    ELSE Raise("ValueError")

\* the objects of the heap that the profiles of a registry hold
Collect(heap, profiles) ==
    LET live == UNION {{profiles[id].requirements[k] : k \in 1..Len(profiles[id].requirements)} :
                        id \in DOMAIN profiles}
    IN  [i \in DOMAIN heap \cap live |-> heap[i]]

\* the rows S in the order of their primary keys
ById(S) ==
    [k \in 1..Cardinality(S) |-> CHOOSE r \in S : Cardinality({x \in S : x.id < r.id}) = k - 1]

\* loan.requirements: the requirement rows of the loan with primary key pk
LoanRequirements(d, pk) == ById({r \in d.requirements : r.loan_id = pk})

\* get_user_loans
GetUserLoans(d, user_id) == {l \in d.loans : l.owner_id = user_id}

\* the lookup without the ownership check
GetLoanByIdOfAnyOwner(d, loan_id, user_id) == {l \in d.loans : l.loan_id = loan_id}

\* get_loan_by_id: the rows with that loan id and that owner
GetLoanById(d, loan_id, user_id) ==
    {l \in d.loans : l.loan_id = loan_id /\ l.owner_id = user_id}

\* get_or_create_user: the user row of the clerk id, inserted if there is none
GetOrCreateUser(d, clerk_id) ==
    LET found == {u \in d.users : u.clerk_id = clerk_id}
    IN  IF found # {} THEN [db |-> d, id |-> (CHOOSE u \in found : TRUE).id]
        ELSE [db |-> [d EXCEPT !.users = @ \cup {[id |-> d.next_id.users, clerk_id |-> clerk_id]},
                               !.next_id.users = @ + 1],
              id |-> d.next_id.users]

\* Requirement(...) as create_loan_from_profile fills it from a requirement
RequirementRow(pk, req, loan_pk, now) ==
    [id |-> pk,
     requirement_id |-> req.id,
     title |-> req.title,
     category |-> req.category,
     description |-> req.description,
     plain_language_summary |-> req.plain_language_summary,
     original_text |-> req.original_text,
     document_reference |-> req.document_reference,
     deadline_description |-> IF req.deadline.t # "null" THEN req.deadline.description ELSE None,
     deadline_frequency |-> IF req.deadline.t # "null" THEN Str(req.deadline.frequency) ELSE None,
     deadline_days_after_period |->
         IF req.deadline.t # "null" THEN req.deadline.days_after_period_end ELSE None,
     deadline_day_of_month |-> IF req.deadline.t # "null" THEN req.deadline.day_of_month ELSE None,
     threshold_metric |-> IF req.threshold.t # "null" THEN req.threshold.metric ELSE None,
     threshold_operator |-> IF req.threshold.t # "null" THEN req.threshold.operator ELSE None,
     threshold_value |-> IF req.threshold.t # "null" THEN req.threshold.value ELSE None,
     threshold_unit |-> IF req.threshold.t # "null" THEN req.threshold.unit ELSE None,
     severity |-> req.severity,
     status |-> req.status,
     cure_period_days |-> req.cure_period_days,
     last_checked |-> None,
     notes |-> None,
     loan_id |-> loan_pk,
     created_at |-> now,
     updated_at |-> now]

\* create_loan_from_profile: the database after it, or the exception it
\* raises, upon which the transaction is rolled back
CreateLoanFromProfile(d, profile, user_id, now) ==
    LET origination == IF Truthy(profile.origination_date)
                       THEN FromIsoFormat(profile.origination_date) ELSE Return(None)
        maturity == IF Truthy(profile.maturity_date)
                    THEN FromIsoFormat(profile.maturity_date) ELSE Return(None)
        loan_pk == d.next_id.loans
        reqs == profile.requirements
        rows == [k \in 1..Len(reqs) |->
                    RequirementRow(d.next_id.requirements + k - 1, reqs[k], loan_pk, now)]
        loan == [id |-> loan_pk,
                 loan_id |-> profile.loan_id,
                 property_name |-> profile.property_name,
                 borrower_name |-> profile.borrower_name,
                 lender_name |-> profile.lender_name,
                 original_loan_amount |-> profile.original_loan_amount,
                 origination_date |-> origination.v,
                 maturity_date |-> maturity.v,
                 compliance_score |-> CalculateComplianceScore(rows),
                 owner_id |-> user_id,
                 created_at |-> now,
                 updated_at |-> now]
        \* the INSERT draws the next value of the sequence even when it fails
        drawn == [d EXCEPT !.next_id.loans = @ + 1]
    IN  IF ~origination.ok THEN [ok |-> FALSE, exc |-> origination.exc, db |-> d]
        ELSE IF ~maturity.ok THEN [ok |-> FALSE, exc |-> maturity.exc, db |-> d]
        ELSE IF \/ profile.property_name.t = "null"
                \/ \E l \in d.loans : l.loan_id = profile.loan_id
                \/ \E k \in 1..Len(reqs) : reqs[k].title.t = "null"
             THEN [ok |-> FALSE, exc |-> "IntegrityError", db |-> drawn]
        ELSE [ok |-> TRUE,
              db |-> [drawn EXCEPT !.loans = @ \cup {loan},
                                   !.requirements = @ \cup {rows[k] : k \in 1..Len(rows)},
                                   !.next_id.requirements = @ + Len(rows)]]

\* the requests of the model: what an upload carries and meets
UploadInputs ==
    {[filename |-> "loan.pdf", loan_id |-> l, use_mock |-> FALSE, env_key |-> e.key, response |-> e.response] :
        l \in {None, Str("LOAN-001")},
        e \in {[key |-> None, response |-> [kind |-> "none"]],
               [key |-> Str("sk-live"),
                response |-> [kind |-> "ok",
                              text |-> "{\"loan_info\": {\"property_name\": \"1 Main St\", \"loan_amount\": 5}, \"requirements\": [{\"title\": \"Insurance\", \"category\": \"insurance\", \"severity\": \"high\", \"original_text\": \"Borrower shall insure.\"}]}"]],
               [key |-> Str("sk-live"),
                response |-> [kind |-> "ok", text |-> "I could not find any requirements in this document."]],
               [key |-> Str("sk-live"),
                response |-> [kind |-> "ok", text |-> "{the document is unreadable}"]]}}
    \cup {[filename |-> "notes.txt", loan_id |-> None, use_mock |-> TRUE, env_key |-> None,
           response |-> [kind |-> "none"]],
          [filename |-> "Loan.PDF", loan_id |-> Str("LOAN-001"), use_mock |-> TRUE,
           env_key |-> Str("sk-live"), response |-> [kind |-> "none"]]}

\* the bodies of status updates
UpdateInputs ==
    {[status |-> "compliant", notes |-> None],
     [status |-> "at_risk", notes |-> Str("waiver requested")],
     [status |-> "not_yet_due", notes |-> Str("")],
     [status |-> "bogus", notes |-> Str("none")]}

\* the loan ids and requirement ids that requests name
RequestLoanIds == {"LOAN-001", "DEMO-001"}
RequestRequirementIds == {"REQ-001", "REQ-002"}

\* the answer to a request
Answer(op, request, code, exc) ==
    handled' = [op |-> op, n |-> handled.n + 1, request |-> request, code |-> code, exc |-> exc]

\* what the upload handlers get from the extractor they choose
Extracted(input, mock, loan_id, now) ==
    IF mock THEN MockExtractRequirements(Document(0), loan_id, now)
    ELSE ExtractRequirements(input.response, loan_id, now)

-----------------------------------------------------------------------------
(* api.py *)

\* the end of upload_loan_document, storing a profile without requirements
\* under the loan id when the extraction has raised
ApiStoreReserving(input, loan_id, result, now) ==
    LET placeholder == [MockExtractRequirements(Document(0), loan_id, now).v
                           EXCEPT !.requirements = << >>]
        kept == [id \in DOMAIN loan_profiles \ {loan_id} |-> loan_profiles[id]]
        made == Allocate(Collect(objects, kept), IF result.ok THEN result.v ELSE placeholder)
    IN  IF ~LowerEndsWith(input.filename, ".pdf")
        THEN /\ Answer("upload", [input |-> input], 400, "HTTPException")
             /\ UNCHANGED <<objects, loan_profiles>>
        ELSE /\ objects' = made.heap
             /\ loan_profiles' = (loan_id :> made.profile) @@ kept
             /\ Answer("upload", [input |-> input], IF result.ok THEN 200 ELSE 500,
                       IF result.ok THEN "none" ELSE result.exc)

\* the end of upload_loan_document: the answer to the upload and what is
\* stored, `result` being what extract_requirements returned or raised
ApiStore(input, loan_id, result, now) ==
    LET kept == [id \in DOMAIN loan_profiles \ {loan_id} |-> loan_profiles[id]]
        made == Allocate(Collect(objects, kept), result.v)
    IN  IF ~LowerEndsWith(input.filename, ".pdf")
        THEN /\ Answer("upload", [input |-> input], 400, "HTTPException")
             /\ UNCHANGED <<objects, loan_profiles>>
        ELSE IF ~result.ok
        THEN /\ Answer("upload", [input |-> input], 500, result.exc)
             /\ UNCHANGED <<objects, loan_profiles>>
        ELSE /\ objects' = made.heap
             /\ loan_profiles' = (loan_id :> made.profile) @@ kept
             /\ Answer("upload", [input |-> input], 200, "none")

\* upload_loan_document
ApiUpload(input) ==
    /\ server = "api" /\ handled.n < MaxRequests
    /\ LET now == handled.n + 1
           loan_id == IF Truthy(input.loan_id) THEN input.loan_id.s ELSE StampedId(now)
           mock == input.use_mock \/ ~Truthy(input.env_key)
       IN  ApiStore(input, loan_id, Extracted(input, mock, loan_id, now), now)
    /\ UNCHANGED <<ctor, extractor, run, prev, requests, req_in, req_out, prof_in, prof_out,
                   server, db, unitVars>>

\* create_demo_loan
ApiCreateDemo ==
    /\ server = "api" /\ handled.n < MaxRequests
    /\ LET now == handled.n + 1
           result == MockExtractRequirements(Document(0), "DEMO-001", now)
           kept == [id \in DOMAIN loan_profiles \ {"DEMO-001"} |-> loan_profiles[id]]
           made == Allocate(Collect(objects, kept), result.v)
       IN  /\ objects' = made.heap
           /\ loan_profiles' = ("DEMO-001" :> made.profile) @@ kept
           /\ Answer("demo", [loan_id |-> "DEMO-001"], 200, "none")
    /\ UNCHANGED <<ctor, extractor, run, prev, requests, req_in, req_out, prof_in, prof_out,
                   server, db, unitVars>>

\* update_requirement_status
ApiUpdateStatus(loan_id, requirement_id, update) ==
    /\ server = "api" /\ handled.n < MaxRequests
    /\ LET now == handled.n + 1
           request == [loan_id |-> loan_id, requirement_id |-> requirement_id, update |-> update]
           held == IF loan_id \in DOMAIN loan_profiles THEN loan_profiles[loan_id].requirements
                   ELSE << >>
           matching == {k \in 1..Len(held) : objects[held[k]].id = requirement_id}
           req == held[CHOOSE k \in matching : \A j \in matching : k <= j]
       IN  IF loan_id \notin DOMAIN loan_profiles \/ matching = {}
           THEN /\ Answer("update", request, 404, "HTTPException")
                /\ UNCHANGED objects
           ELSE IF update.status \notin ComplianceStatus
           THEN /\ Answer("update", request, 400, "HTTPException")
                /\ UNCHANGED objects
           ELSE /\ objects' = [objects EXCEPT ![req] =
                                  [@ EXCEPT !.status = update.status,
                                            !.last_checked = Timestamp(now),
                                            !.notes = IF Truthy(update.notes) THEN update.notes ELSE @]]
                /\ Answer("update", request, 200, "none")
    /\ UNCHANGED <<ctor, extractor, run, prev, requests, req_in, req_out, prof_in, prof_out,
                   server, loan_profiles, db, unitVars>>

-----------------------------------------------------------------------------
(* api_v2.py *)

\* the end of the handlers that create a loan: `created` is what
\* create_loan_from_profile returned or raised
V2Created(op, request, created) ==
    /\ db' = created.db
    /\ Answer(op, request, IF created.ok THEN 200 ELSE 500, IF created.ok THEN "none" ELSE created.exc)

\* the end of upload_loan_document: the answer to the upload and what is
\* stored, `result` being what extract_requirements returned or raised
V2Store(request, known, loan_id, result, now) ==
    IF ~LowerEndsWith(request.input.filename, ".pdf")
    THEN /\ Answer("upload", request, 400, "HTTPException")
         /\ UNCHANGED db
    ELSE IF GetLoanById(known.db, loan_id, known.id) # {}
    THEN /\ Answer("upload", request, 400, "HTTPException")
         /\ db' = known.db
    ELSE IF ~result.ok
    THEN /\ Answer("upload", request, 500, result.exc)
         /\ db' = known.db
    ELSE V2Created("upload", request, CreateLoanFromProfile(known.db, result.v, known.id, now))

\* the loan id of an upload: the one given, or one made from the number of
\* the user's loans
V2LoanId(input, known) ==
    IF Truthy(input.loan_id) THEN input.loan_id.s
    ELSE "LOAN-" \o Pad3(Cardinality(GetUserLoans(known.db, known.id)) + 1)

\* upload_loan_document
V2Upload(user, input) ==
    /\ server = "api_v2" /\ handled.n < MaxRequests
    /\ LET now == handled.n + 1
           known == GetOrCreateUser(db, user)
           loan_id == V2LoanId(input, known)
       IN  V2Store([user |-> user, input |-> input], known, loan_id,
                   Extracted(input, ~Truthy(input.env_key), loan_id, now), now)
    /\ UNCHANGED <<ctor, extractor, run, prev, requests, req_in, req_out, prof_in, prof_out,
                   server, objects, loan_profiles, unitVars>>

\* create_demo_loan
V2CreateDemo(user) ==
    /\ server = "api_v2" /\ handled.n < MaxRequests
    /\ LET now == handled.n + 1
           request == [user |-> user, loan_id |-> "DEMO-001"]
           known == GetOrCreateUser(db, user)
       IN  IF GetLoanById(known.db, "DEMO-001", known.id) # {}
           THEN /\ Answer("demo", request, 200, "none")
                /\ db' = known.db
           ELSE V2Created("demo", request,
                          CreateLoanFromProfile(known.db,
                                                MockExtractRequirements(Document(0), "DEMO-001", now).v,
                                                known.id, now))
    /\ UNCHANGED <<ctor, extractor, run, prev, requests, req_in, req_out, prof_in, prof_out,
                   server, objects, loan_profiles, unitVars>>

\* the row of the update with its severity lowered as well
UpdatedRowLowered(requirement, update, now) ==
    [requirement EXCEPT !.status = update.status,
                        !.last_checked = now,
                        !.notes = IF Truthy(update.notes) THEN update.notes ELSE @,
                        !.severity = "low",
                        !.updated_at = now]

\* the requirement row as update_requirement_status writes it; the UPDATE
\* sets updated_at (onupdate)
UpdatedRow(requirement, update, now) ==
    [requirement EXCEPT !.status = update.status,
                        !.last_checked = now,
                        !.notes = IF Truthy(update.notes) THEN update.notes ELSE @,
                        !.updated_at = now]

\* a list of statuses that lets any string through
valid_statuses_or_other == {"compliant", "non_compliant", "at_risk", "pending", "unknown", "bogus"}

\* valid_statuses of update_requirement_status
valid_statuses == {"compliant", "non_compliant", "at_risk", "pending", "unknown"}

\* the event with the status read after the requirement was written
StatusChangeEventAfterWrite(pk, requirement, update, user_id, loan_pk, now) ==
    [id |-> pk,
     requirement_id |-> requirement.requirement_id,
     event_type |-> "status_change",
     event_date |-> now,
     description |-> "Status changed from " \o update.status \o " to " \o update.status,
     user_id |-> user_id,
     old_status |-> update.status,
     new_status |-> update.status,
     documents |-> << >>,
     loan_id |-> loan_pk,
     created_at |-> now]

\* ComplianceEvent(...) of update_requirement_status, old_status being the
\* status of the requirement row before it is written
StatusChangeEvent(pk, requirement, update, user_id, loan_pk, now) ==
    [id |-> pk,
     requirement_id |-> requirement.requirement_id,
     event_type |-> "status_change",
     event_date |-> now,
     description |-> "Status changed from " \o requirement.status \o " to " \o update.status,
     user_id |-> user_id,
     old_status |-> requirement.status,
     new_status |-> update.status,
     documents |-> << >>,
     loan_id |-> loan_pk,
     created_at |-> now]

\* the loan row left as it is
RescoredNever(loan, rows, now) == loan

\* loan.compliance_score = loan.calculate_compliance_score(), rows being the
\* loan's requirement rows; the loan row is written only when its score has
\* changed
Rescored(loan, rows, now) ==
    LET score == CalculateComplianceScore(rows)
    IN  [loan EXCEPT !.compliance_score = score,
                     !.updated_at = IF score # loan.compliance_score THEN now ELSE @]

\* update_requirement_status
V2UpdateStatus(user, loan_id, requirement_id, update) ==
    /\ server = "api_v2" /\ handled.n < MaxRequests
    /\ LET now == handled.n + 1
           request == [user |-> user, loan_id |-> loan_id, requirement_id |-> requirement_id,
                       update |-> update]
           known == GetOrCreateUser(db, user)
           d == known.db
           loans == GetLoanById(d, loan_id, known.id)
           loan == CHOOSE l \in loans : TRUE
           rows == LoanRequirements(d, loan.id)
           matching == {k \in 1..Len(rows) : rows[k].requirement_id = requirement_id}
           requirement == rows[CHOOSE k \in matching : \A j \in matching : k <= j]
           event == StatusChangeEvent(d.next_id.compliance_events, requirement, update,
                                      known.id, loan.id, now)
           updated == UpdatedRow(requirement, update, now)
           after == (d.requirements \ {requirement}) \cup {updated}
           rescored == Rescored(loan, ById({r \in after : r.loan_id = loan.id}), now)
       IN  IF loans = {} \/ matching = {}
           THEN /\ Answer("update", request, 404, "HTTPException")
                /\ db' = d
           ELSE IF update.status \notin valid_statuses
           THEN /\ Answer("update", request, 400, "HTTPException")
                /\ db' = d
           ELSE /\ db' = [d EXCEPT !.compliance_events = @ \cup {event},
                                   !.next_id.compliance_events = @ + 1,
                                   !.requirements = after,
                                   !.loans = (@ \ {loan}) \cup {rescored}]
                /\ Answer("update", request, 200, "none")
    /\ UNCHANGED <<ctor, extractor, run, prev, requests, req_in, req_out, prof_in, prof_out,
                   server, objects, loan_profiles, unitVars>>

\* delete_loan: the relationships of Loan cascade the delete to the loan's
\* requirement rows and event rows
V2DeleteLoan(user, loan_id) ==
    /\ server = "api_v2" /\ handled.n < MaxRequests
    /\ LET request == [user |-> user, loan_id |-> loan_id]
           known == GetOrCreateUser(db, user)
           d == known.db
           loans == GetLoanById(d, loan_id, known.id)
           loan == CHOOSE l \in loans : TRUE
       IN  IF loans = {}
           THEN /\ Answer("delete", request, 404, "HTTPException")
                /\ db' = d
           ELSE /\ db' = [d EXCEPT !.loans = @ \ {loan},
                                   !.requirements = {r \in @ : r.loan_id # loan.id},
                                   !.compliance_events = {e \in @ : e.loan_id # loan.id}]
                /\ Answer("delete", request, 200, "none")
    /\ UNCHANGED <<ctor, extractor, run, prev, requests, req_in, req_out, prof_in, prof_out,
                   server, objects, loan_profiles, unitVars>>

\* get_loan: the loan of that id that the user owns, with its requirements
V2GetLoan(user, loan_id) ==
    /\ server = "api_v2" /\ handled.n < MaxRequests
    /\ LET request == [user |-> user, loan_id |-> loan_id]
           known == GetOrCreateUser(db, user)
           loans == GetLoanById(known.db, loan_id, known.id)
           loan == CHOOSE l \in loans : TRUE
           rows == LoanRequirements(known.db, loan.id)
       IN  /\ db' = known.db
           /\ IF loans = {}
              THEN Answer("get", request, 404, "HTTPException")
              ELSE handled' = [op |-> "get", n |-> handled.n + 1, request |-> request,
                               code |-> 200, exc |-> "none",
                               body |-> [id |-> loan.id, loan_id |-> loan.loan_id,
                                         compliance_score |-> loan.compliance_score,
                                         requirements |->
                                             [k \in 1..Len(rows) |->
                                                 [id |-> rows[k].id,
                                                  requirement_id |-> rows[k].requirement_id,
                                                  status |-> rows[k].status,
                                                  notes |-> rows[k].notes]]]]
    /\ UNCHANGED <<ctor, extractor, run, prev, requests, req_in, req_out, prof_in, prof_out,
                   server, objects, loan_profiles, unitVars>>

InitStore ==
    /\ NoPipeline /\ NoUnit
    /\ server \in {"api", "api_v2"}
    /\ objects = << >>
    /\ loan_profiles = << >>
    /\ db = EmptyDb
    /\ handled = [op |-> "none", n |-> 0]

NextStore ==
    \/ \E input \in UploadInputs : ApiUpload(input)
    \/ ApiCreateDemo
    \/ \E loan_id \in RequestLoanIds, requirement_id \in RequestRequirementIds, update \in UpdateInputs :
          ApiUpdateStatus(loan_id, requirement_id, update)
    \/ \E user \in Users, input \in UploadInputs : V2Upload(user, input)
    \/ \E user \in Users : V2CreateDemo(user)
    \/ \E user \in Users, loan_id \in RequestLoanIds, requirement_id \in RequestRequirementIds,
          update \in UpdateInputs : V2UpdateStatus(user, loan_id, requirement_id, update)
    \/ \E user \in Users, loan_id \in RequestLoanIds : V2DeleteLoan(user, loan_id)
    \/ \E user \in Users, loan_id \in RequestLoanIds : V2GetLoan(user, loan_id)

SpecStore == InitStore /\ [][NextStore]_vars

-----------------------------------------------------------------------------
(* Properties of the loan store *)

\* the upload meets a payload-level error: an extractor that calls the
\* service is chosen and the text the service answers with has no payload,
\* or one that does not decode
MeetsPayloadError(input) ==
    /\ LowerEndsWith(input.filename, ".pdf")
    /\ Truthy(input.env_key) /\ ~input.use_mock
    /\ input.response.kind = "ok"
    /\ ~Decoded[input.response.text].ok

\* C12: an upload whose extraction meets a payload-level error (no payload
\* found, payload malformed) gets no profile: the handler answers with the
\* error, unless api_v2 has turned the upload down before as one for a loan
\* id the user has already, and stores nothing, the loan_profiles registry
\* and its requirement objects (api.py) and the loans and requirements
\* tables (api_v2.py) being after the upload what they were before it.
C12_PayloadErrorStoresNothing ==
    [][(handled'.op = "upload" /\ MeetsPayloadError(handled'.request.input)) =>
          /\ handled'.code \in {400, 500}
          /\ handled'.code = 400 =>
                LET known == GetOrCreateUser(db, handled'.request.user)
                IN  GetLoanById(known.db, V2LoanId(handled'.request.input, known), known.id) # {}
          /\ handled'.code = 500 =>
                /\ handled'.exc = Decoded[handled'.request.input.response.text].exc
                /\ handled'.exc \in {"ValueError", "JSONDecodeError"}
          /\ loan_profiles' = loan_profiles
          /\ objects' = objects
          /\ db'.loans = db.loans
          /\ db'.requirements = db.requirements]_vars

\* C12 witness: an upload for a loan id has failed on a malformed payload
\* while a profile, or a loan row of the same user, is stored under that id
C12_Witness ==
    /\ handled.op = "upload"
    /\ MeetsPayloadError(handled.request.input)
    /\ handled.exc = "JSONDecodeError"
    /\ handled.request.input.loan_id = Str("LOAN-001")
    /\ \/ server = "api" /\ "LOAN-001" \in DOMAIN loan_profiles
       \/ server = "api_v2" /\ \E l \in db.loans : l.loan_id = "DEMO-001"

\* the requirement object a status update of the registry is aimed at: the
\* first of the loan's requirements with the id
TargetObjects(request) ==
    IF request.loan_id \notin DOMAIN loan_profiles THEN {}
    ELSE LET held == loan_profiles[request.loan_id].requirements
             matching == {k \in 1..Len(held) : objects[held[k]].id = request.requirement_id}
         IN  {held[k] : k \in {j \in matching : \A i \in matching : j <= i}}

\* the requirement row a status update of the database is aimed at
TargetRows(request) ==
    LET owners == {u.id : u \in {x \in db.users : x.clerk_id = request.user}}
        loans == {l.id : l \in {x \in db.loans : x.loan_id = request.loan_id /\ x.owner_id \in owners}}
        rows == {r \in db.requirements : r.loan_id \in loans /\ r.requirement_id = request.requirement_id}
    IN  {r \in rows : \A x \in rows : r.id <= x.id}

\* the requirement a with status, notes and last_checked as b has them
WithTracking(a, b) ==
    [a EXCEPT !.status = b.status, !.notes = b.notes, !.last_checked = b.last_checked]

\* a status update leaves the registry as it is but for the tracking
\* fields of the object it is aimed at
RegistryKeepsShape ==
    handled'.op = "update" =>
        /\ loan_profiles' = loan_profiles
        /\ DOMAIN objects' = DOMAIN objects
        /\ \A i \in DOMAIN objects :
              IF i \in TargetObjects(handled'.request)
              THEN WithTracking(objects'[i], objects[i]) = objects[i]
              ELSE objects'[i] = objects[i]

\* C18 as claimed: a status update changes only status, notes and
\* last_checked of the requirement it is aimed at; the number, order and ids
\* of the requirements, every other field of that requirement and every
\* field of every other requirement stay as they are, and no requirement is
\* added or removed.
C18_OnlyTrackingFieldsChange ==
    [][/\ RegistryKeepsShape
       /\ handled'.op = "update" =>
             /\ {r.id : r \in db'.requirements} = {r.id : r \in db.requirements}
             /\ \A r \in db.requirements :
                   \E w \in db'.requirements :
                       /\ w.id = r.id
                       /\ IF r \in TargetRows(handled'.request)
                          THEN WithTracking(w, r) = r
                          ELSE w = r]_vars

\* C18 as amended: a status update changes only status, notes and
\* last_checked of the requirement it is aimed at and, in api_v2, the
\* updated_at timestamp of its row; the number, order and ids of the
\* requirements, every other field of that requirement and every field of
\* every other requirement stay as they are, and no requirement is added or
\* removed.
C18_OnlyTrackingFieldsAndRowStampChange ==
    [][/\ RegistryKeepsShape
       /\ handled'.op = "update" =>
             /\ {r.id : r \in db'.requirements} = {r.id : r \in db.requirements}
             /\ Cardinality(db'.requirements) = Cardinality(db.requirements)
             /\ \A r \in db.requirements :
                   \E w \in db'.requirements :
                       /\ w.id = r.id
                       /\ IF r \in TargetRows(handled'.request)
                          THEN [WithTracking(w, r) EXCEPT !.updated_at = r.updated_at] = r
                          ELSE w = r]_vars

\* C18 witness: two status updates of one requirement of a stored loan have
\* been accepted, the second one carrying notes
C18_Witness ==
    /\ handled.op = "update" /\ handled.code = 200 /\ handled.n = 3
    /\ handled.request.update.notes = Str("waiver requested")
    /\ \/ \E i \in DOMAIN objects :
             /\ objects[i].status = "at_risk" /\ objects[i].notes = Str("waiver requested")
             /\ objects[i].last_checked = Timestamp(3)
       \/ \E r \in db.requirements :
             /\ r.status = "at_risk" /\ r.notes = Str("waiver requested")
             /\ r.last_checked = 3
             /\ Cardinality({e \in db.compliance_events : e.requirement_id = r.requirement_id}) = 2

\* C19: compliance events are append-only: an event once recorded stays in
\* the store with the values it was recorded with, whatever request is
\* handled afterwards: status update, upload, demo creation, loan deletion.
C19_EventsAppendOnly ==
    [][\A e \in db.compliance_events : e \in db'.compliance_events]_vars

-----------------------------------------------------------------------------
(* Properties of the fields _build_requirement fills from an entry *)

\* the fields of the entry other than the deadline are well formed
AsideFromDeadlineWellFormed(data) ==
    /\ ParseCategory(data).ok
    /\ ParseSeverity(data).ok
    /\ ParseThreshold(data).ok
    /\ OriginalText(data).ok

\* C21: an entry with a deadline whose frequency is missing, null, or any
\* string gives a requirement whose deadline has a member of Frequency for
\* its frequency, and AS_NEEDED when the frequency is missing, null, or a
\* string that, lower-cased and with spaces replaced by underscores, is no
\* Frequency value; the call does not raise.
C21_FrequencyAlwaysValid ==
    (req_out.done /\ req_in.data.t = "obj") =>
        LET data == req_in.data.o
            dl == Get(data, "deadline", Absent)
        IN  (dl.t = "obj" /\ Truthy(dl) /\ AsideFromDeadlineWellFormed(data)) =>
                LET raw == Get(dl.o, "frequency", Absent)
                IN  (raw \in {Absent, None} \/ raw.t = "str") =>
                        /\ req_out.res.ok
                        /\ req_out.res.v.deadline.frequency \in Frequency
                        /\ (raw \in {Absent, None} \/ Normalized(raw.s) \notin Frequency) =>
                              req_out.res.v.deadline.frequency = "as_needed"

\* C22: a requirement that was built has a string for its
\* plain_language_summary, the empty string when the entry has no such key
\* or has null under it.
C22_SummaryNeverNull ==
    (req_out.done /\ req_out.res.ok) =>
        LET given == Get(req_in.data.o, "plain_language_summary", Absent)
        IN  /\ req_out.res.v.plain_language_summary.t = "str"
            /\ given \in {Absent, None} => req_out.res.v.plain_language_summary = Str("")

\* the comparison operators of a threshold
ThresholdOperators == {">=", "<=", ">", "<", "==", "between"}

\* C23: the threshold of a requirement that was built has one of the six
\* operators, and a secondary value whenever its operator is between.
C23_ThresholdWellFormed ==
    (req_out.done /\ req_out.res.ok /\ req_out.res.v.threshold # None) =>
        LET th == req_out.res.v.threshold
        IN  /\ th.operator.t = "str"
            /\ th.operator.s \in ThresholdOperators
            /\ th.operator = Str("between") => th.secondary_value # None

-----------------------------------------------------------------------------
(* The candidate payload of a response *)

\* how many of text[from..to] are the character c
CountChar(text, from, to, c) == Cardinality({i \in from..to : Char(text, i) = c})

\* the span from the first opening brace to the closing brace that matches it
FirstBraceSpan(text) ==
    LET open == Find(text, "{", 1)
        Closing == {j \in (open + 1)..Len(text) :
                       /\ Char(text, j) = "}"
                       /\ CountChar(text, open, j, "{") = CountChar(text, open, j, "}")}
    IN  IF open = 0 \/ Closing = {} THEN [found |-> FALSE]
        ELSE [found |-> TRUE,
              group |-> SubSeq(text, open, CHOOSE j \in Closing : \A k \in Closing : j <= k)]

\* C25: the candidate payload of a response is the contents of its first
\* fenced json block when it has one, and otherwise the span from its first
\* opening brace to the matching closing brace, so that what follows the span
\* is no part of it; the response is decoded from that candidate.
C25_CandidateIsFirstBraceSpan ==
    (run.pc = "done" /\ run.response.kind = "ok") =>
        LET text == run.response.text
            fenced == FencedBlock(text)
            claimed == IF fenced.found THEN fenced ELSE FirstBraceSpan(text)
        IN  /\ Candidate(text) = claimed
            /\ run.parsed = IF claimed.found THEN JsonLoads(claimed.group) ELSE Raise("ValueError")

-----------------------------------------------------------------------------
(* Invocations of extract_requirements that run at the same time, on one    *)
(* RequirementExtractor and on MockExtractor.  Each invocation runs in a    *)
(* thread of its own; a step is what a thread does between two points at    *)
(* which another thread may run and see or change an object: it waits for   *)
(* the service's answer, and it may be preempted before every allocation    *)
(* of a profile and every append to a list.  Lists are objects in the heap  *)
(* `objects`, beside the LoanRequirement objects: identity -> [items].      *)

\* the two invocations that run at the same time
Threads == {1, 2}

\* the document length and the answers of the service in these runs
ConcurrentDocLength == max_chars + 1
ConcurrentOutcomes ==
    {[kind |-> "ok", text |-> Unwrapped(j)] : j \in PayloadTexts}
    \cup {[kind |-> "ok", text |-> "I could not find any requirements in this document."],
          [kind |-> "timeout"]}

\* one list for all instances, made when the class is defined
ListsOfClass(heap, n) == [k \in 1..n |-> k]

\* field(default_factory=list), for n fields of an instance that is being
\* constructed: n new lists
DefaultFactoryLists(heap, n) == FreshIds(heap, n)

\* LoanProfile(...): the instance with its three lists, new and empty
NewLoanProfile(heap, fields) ==
    LET ids == DefaultFactoryLists(heap, 3)
    IN  [heap |-> Extend(heap, ids, [k \in 1..3 |-> [items |-> << >>]]),
         profile |-> [fields EXCEPT !.requirements = ids[1], !.events = ids[2],
                                    !.source_documents = ids[3]]]

\* the profile as a value: its lists and requirement objects read out of the heap
Resolve(heap, profile) ==
    [profile EXCEPT !.requirements = [k \in 1..Len(heap[@].items) |-> heap[heap[@].items[k]]],
                    !.events = heap[@].items,
                    !.source_documents = heap[@].items]

Thread(t) == call.threads[t]

Continue(t, thread) ==
    /\ call' = [call EXCEPT !.threads[t] = thread]
    /\ UNCHANGED <<ctor, extractor, run, prev, requests, req_in, req_out, prof_in, prof_out,
                   server, loan_profiles, db, handled, subject>>

\* thread t calls extract_requirements(document_text, loan_id) on the
\* extractor of the given kind; RequirementExtractor goes as far as the POST
StartInvocation(t, kind, loan_id) ==
    /\ Thread(t).pc = "idle"
    /\ UNCHANGED objects
    /\ IF kind = "mock"
       THEN Continue(t, [pc |-> "constructing", kind |-> kind, loan_id |-> loan_id])
       ELSE Continue(t, [pc |-> "awaiting", kind |-> kind, loan_id |-> loan_id,
                         prompt |-> FormatPrompt(Truncate(Document(ConcurrentDocLength))),
                         request |-> [url |-> extractor.api_url, api_key |-> extractor.api_key]])

\* the service answers thread t: the rest of _call_claude, then _parse_response
ReceiveResponse(t, response) ==
    /\ Thread(t).pc = "awaiting"
    /\ UNCHANGED objects
    /\ LET text == ResponseText(response)
           parsed == IF text.ok THEN Decoded[text.v] ELSE NotRun
       IN  CASE ~text.ok ->
                  Continue(t, [pc |-> "returned", kind |-> "real", loan_id |-> Thread(t).loan_id,
                               response |-> response, now |-> 0, result |-> text])
             [] ~parsed.ok ->
                  Continue(t, [pc |-> "returned", kind |-> "real", loan_id |-> Thread(t).loan_id,
                               response |-> response, now |-> 0, result |-> parsed])
             [] OTHER ->
                  Continue(t, [pc |-> "constructing", kind |-> "real", loan_id |-> Thread(t).loan_id,
                               response |-> response, parsed |-> parsed.v])

\* _build_loan_profile up to its loop: loan_info, LoanProfile(...) at the
\* clock reading `now`, and the iterator over parsed.get("requirements", [])
ConstructReal(t, now) ==
    /\ Thread(t).pc = "constructing" /\ Thread(t).kind = "real"
    /\ LET thread == Thread(t)
           parsed == thread.parsed
           ended(result) == [pc |-> "returned", kind |-> "real", loan_id |-> thread.loan_id,
                             response |-> thread.response, now |-> now, result |-> result]
       IN  IF parsed.t # "obj" \/ Get(parsed.o, "loan_info", EmptyDict).t # "obj"
           THEN /\ UNCHANGED objects
                /\ Continue(t, ended(Raise("AttributeError")))
           ELSE LET fields == BuildLoanProfile(Obj(("loan_info" :> Get(parsed.o, "loan_info", EmptyDict))),
                                               thread.loan_id, now).v
                    made == NewLoanProfile(objects, fields)
                    entries == Iterate(Get(parsed.o, "requirements", Arr(<< >>)))
                IN  /\ objects' = made.heap
                    /\ IF ~entries.ok THEN Continue(t, ended(entries))
                       ELSE Continue(t, [pc |-> "looping", kind |-> "real", loan_id |-> thread.loan_id,
                                         response |-> thread.response, now |-> now,
                                         entries |-> entries.v, i |-> 1, profile |-> made.profile])

\* one turn of the loop: _build_requirement on the next entry, and
\* profile.requirements.append(req)
AppendRequirement(t) ==
    /\ Thread(t).pc = "looping"
    /\ Thread(t).i <= Len(Thread(t).entries)
    /\ LET thread == Thread(t)
           req == BuildRequirement(thread.entries[thread.i], thread.i)
           id == FreshIds(objects, 1)
           list == thread.profile.requirements
       IN  IF ~req.ok
           THEN /\ UNCHANGED objects
                /\ Continue(t, [pc |-> "returned", kind |-> "real", loan_id |-> thread.loan_id,
                                response |-> thread.response, now |-> thread.now, result |-> req])
           ELSE /\ objects' = [Extend(objects, id, <<req.v>>) EXCEPT ![list].items = Append(@, id[1])]
                /\ Continue(t, [thread EXCEPT !.i = @ + 1])

\* MockExtractor: LoanProfile(...) at the clock reading `now`
ConstructMock(t, now) ==
    /\ Thread(t).pc = "constructing" /\ Thread(t).kind = "mock"
    /\ LET thread == Thread(t)
           fields == MockExtractRequirements(Document(ConcurrentDocLength), thread.loan_id, now).v
           made == NewLoanProfile(objects, fields)
       IN  /\ objects' = made.heap
           /\ Continue(t, [pc |-> "assigning", kind |-> "mock", loan_id |-> thread.loan_id,
                           now |-> now, profile |-> made.profile])

\* MockExtractor: profile.requirements = [LoanRequirement(...), ...], a new
\* list of new objects, and return profile
AssignRequirements(t) ==
    /\ Thread(t).pc = "assigning"
    /\ LET thread == Thread(t)
           ids == FreshIds(objects, Len(MockRequirements) + 1)
           list == ids[Len(ids)]
           held == SubSeq(ids, 1, Len(MockRequirements))
       IN  /\ objects' = Extend(objects, ids, Append(MockRequirements, [items |-> held]))
           /\ Continue(t, [pc |-> "returned", kind |-> "mock", loan_id |-> thread.loan_id,
                           now |-> thread.now,
                           result |-> Return([thread.profile EXCEPT !.requirements = list])])

\* the loop is over: return profile
ReturnProfile(t) ==
    /\ Thread(t).pc = "looping"
    /\ Thread(t).i > Len(Thread(t).entries)
    /\ UNCHANGED objects
    /\ LET thread == Thread(t)
       IN  Continue(t, [pc |-> "returned", kind |-> "real", loan_id |-> thread.loan_id,
                        response |-> thread.response, now |-> thread.now,
                        result |-> Return(thread.profile)])

InitConcurrent ==
    /\ ctor = [state |-> "constructed"]
    /\ extractor = [constructed |-> TRUE, api_key |-> Str("sk-live"),
                    api_url |-> "https://api.anthropic.com/v1/messages",
                    model |-> "claude-sonnet-4-20250514"]
    /\ run = Idle
    /\ prev = NoPrev
    /\ requests = << >>
    /\ req_in = NoCall /\ req_out = NoCall
    /\ prof_in = NoCall /\ prof_out = NoCall
    /\ NoStore
    /\ subject = [t |-> "none"]
    /\ call = [op |-> "extract_requirements", threads |-> [t \in Threads |-> [pc |-> "idle"]]]

NextConcurrent ==
    \E t \in Threads :
        \/ \E kind \in {"real", "mock"}, loan_id \in LoanIds : StartInvocation(t, kind, loan_id)
        \/ \E response \in ConcurrentOutcomes : ReceiveResponse(t, response)
        \/ \E now \in 1..MaxClock : ConstructReal(t, now)
        \/ AppendRequirement(t)
        \/ \E now \in 1..MaxClock : ConstructMock(t, now)
        \/ AssignRequirements(t)
        \/ ReturnProfile(t)

SpecConcurrent == InitConcurrent /\ [][NextConcurrent]_vars

\* what the invocation of a thread that has returned gives when run alone
Alone(thread) ==
    IF thread.kind = "mock"
    THEN MockExtractRequirements(Document(ConcurrentDocLength), thread.loan_id, thread.now)
    ELSE ExtractRequirements(thread.response, thread.loan_id, thread.now)

\* the lists of a returned profile
ListsOf(profile) == {profile.requirements, profile.events, profile.source_documents}

\* C24: whatever the interleaving, an invocation that has returned has
\* returned what it returns when run alone (the same exception, or a profile
\* equal in every field), whatever the other invocations do afterwards, and
\* the requirements, events and source_documents lists of two returned
\* profiles are six different objects.
C24_InvocationsShareNothing ==
    /\ \A t \in Threads :
          Thread(t).pc = "returned" =>
              /\ Thread(t).result.ok = Alone(Thread(t)).ok
              /\ IF Thread(t).result.ok
                 THEN Resolve(objects, Thread(t).result.v) = Alone(Thread(t)).v
                 ELSE Thread(t).result = Alone(Thread(t))
    /\ \A t, u \in Threads :
          (t # u /\ Thread(t).pc = "returned" /\ Thread(u).pc = "returned"
              /\ Thread(t).result.ok /\ Thread(u).result.ok) =>
              /\ Cardinality(ListsOf(Thread(t).result.v)) = 3
              /\ ListsOf(Thread(t).result.v) \cap ListsOf(Thread(u).result.v) = {}

\* C24 witness: two invocations on the RequirementExtractor have returned
\* profiles of two requirements each, their appends having alternated
C24_Witness ==
    /\ \A t \in Threads : Thread(t).pc = "returned" /\ Thread(t).kind = "real" /\ Thread(t).result.ok
    /\ LET a == objects[Thread(1).result.v.requirements].items
           b == objects[Thread(2).result.v.requirements].items
       IN  /\ Len(a) = 2 /\ Len(b) = 2
           /\ a[1] < b[1] /\ b[1] < a[2] /\ a[2] < b[2]

-----------------------------------------------------------------------------
(* Properties of the loan store: scores, rejected updates, events, ids,     *)
(* owners                                                                   *)

\* C26: in api_v2 every stored loan carries the score that
\* calculate_compliance_score gives for the statuses its requirements have
\* now, and the score is between 0 and 100.
C26_StoredScoreIsCurrent ==
    server = "api_v2" =>
        \A l \in db.loans :
            /\ l.compliance_score = CalculateComplianceScore(LoanRequirements(db, l.id))
            /\ l.compliance_score \in 0..100

\* C26 witness: after an accepted status update and a rejected one a loan
\* has a score that is neither 0 nor 100
C26_Witness ==
    /\ server = "api_v2" /\ handled.n = 3
    /\ handled.op = "update" /\ handled.code = 400
    /\ \E l \in db.loans :
          /\ l.compliance_score \notin {0, 100}
          /\ \E e \in db.compliance_events : e.loan_id = l.id

\* what a status update is aimed at exists
TargetExists(request) ==
    IF server = "api" THEN TargetObjects(request) # {} ELSE TargetRows(request) # {}

\* every stored requirement has a member of ComplianceStatus for its status
StatusesValid ==
    /\ \A i \in DOMAIN objects : objects[i].status \in ComplianceStatus
    /\ \A r \in db.requirements : r.status \in ComplianceStatus

\* a status update that has to be rejected is answered with an error
BadUpdateRejected ==
    (handled'.op = "update"
        /\ (handled'.request.update.status \notin ComplianceStatus \/ ~TargetExists(handled'.request))) =>
        handled'.code \in {400, 404}

\* C27 as claimed: a status update with a status that is no status value, or
\* aimed at a loan or requirement that does not exist, is answered with an
\* error, and an update answered with an error leaves the whole store as it
\* was; every stored requirement has a valid status.
C27_RejectedUpdateChangesNothing ==
    /\ [][/\ BadUpdateRejected
          /\ (handled'.op = "update" /\ handled'.code # 200) =>
                (db' = db /\ objects' = objects /\ loan_profiles' = loan_profiles)]_vars
    /\ []StatusesValid

\* the database d without the row of the user with that clerk id
WithoutUser(d, clerk_id) ==
    [d EXCEPT !.users = {u \in @ : u.clerk_id # clerk_id}, !.next_id.users = 0]

\* C27 as amended: a rejected status update leaves the loans, requirements
\* and events, the scores and the registry as they were; in api_v2 it may
\* add the row of the user who sent it to the users table, and nothing else.
C27_RejectedUpdateChangesNoLoan ==
    /\ [][/\ BadUpdateRejected
          /\ (handled'.op = "update" /\ handled'.code # 200) =>
                /\ objects' = objects /\ loan_profiles' = loan_profiles
                /\ db'.loans = db.loans /\ db'.requirements = db.requirements
                /\ db'.compliance_events = db.compliance_events
                /\ \/ db' = db
                   \/ /\ server = "api_v2"
                      /\ WithoutUser(db', handled'.request.user) = WithoutUser(db, handled'.request.user)
                      /\ db'.next_id.users = db.next_id.users + 1]_vars
    /\ []StatusesValid

\* C27 witness: an update with a status that is no status value, aimed at a
\* requirement that exists and has been updated before, was answered 400
C27_Witness ==
    /\ handled.op = "update" /\ handled.code = 400
    /\ handled.request.update.status = "bogus"
    /\ TargetExists(handled.request)
    /\ \/ \E i \in TargetObjects(handled.request) : objects[i].status = "at_risk"
       \/ \E r \in TargetRows(handled.request) : r.status = "at_risk"

\* the events of a requirement of a loan, in the order they were recorded
EventsOf(d, loan_pk, requirement_id) ==
    ById({e \in d.compliance_events : e.loan_id = loan_pk /\ e.requirement_id = requirement_id})

\* the events recorded for a requirement form a chain
EventsChain ==
    \A r \in db.requirements :
        LET events == EventsOf(db, r.loan_id, r.requirement_id)
        IN  /\ \A k \in 2..Len(events) : events[k].old_status = events[k - 1].new_status
            /\ Len(events) > 0 => events[Len(events)].new_status = r.status

\* C28: in api_v2 an accepted status update records one event, and no
\* other: of type status_change, for the requirement and the loan the update
\* is aimed at, its old_status the status of the requirement before the
\* update and its new_status the status after; so the events of a
\* requirement form a chain, each old_status the new_status of the event
\* before.
C28_OneEventPerUpdate ==
    /\ [][(server = "api_v2" /\ handled'.op = "update" /\ handled'.code = 200) =>
             LET recorded == db'.compliance_events \ db.compliance_events
             IN  /\ Cardinality(recorded) = 1
                 /\ db.compliance_events \subseteq db'.compliance_events
                 /\ Cardinality(TargetRows(handled'.request)) = 1
                 /\ \A e \in recorded, r \in TargetRows(handled'.request) :
                       /\ e.event_type = "status_change"
                       /\ e.requirement_id = handled'.request.requirement_id
                       /\ e.requirement_id = r.requirement_id
                       /\ e.loan_id = r.loan_id
                       /\ e.old_status = r.status
                       /\ \E w \in db'.requirements : w.id = r.id /\ e.new_status = w.status
                       /\ e.new_status = handled'.request.update.status]_vars
    /\ []EventsChain

\* C28 witness: two events of one requirement, the second from the status
\* the first went to, to another status
C28_Witness ==
    \E r \in db.requirements :
        LET events == EventsOf(db, r.loan_id, r.requirement_id)
        IN  /\ Len(events) = 2
            /\ events[1].old_status = "unknown"
            /\ events[1].new_status # "unknown"
            /\ events[2].old_status = events[1].new_status
            /\ events[2].new_status # events[2].old_status

\* C29: in api_v2 an upload of a .pdf that gives no loan_id gets a generated
\* id that no stored loan has, of the same user or of another, so the upload
\* is neither rejected as a duplicate nor fails on the uniqueness of
\* Loan.loan_id.
C29_GeneratedIdNeverCollides ==
    [][(server = "api_v2" /\ handled'.op = "upload"
           /\ ~Truthy(handled'.request.input.loan_id)
           /\ LowerEndsWith(handled'.request.input.filename, ".pdf")) =>
          /\ V2LoanId(handled'.request.input, GetOrCreateUser(db, handled'.request.user))
                \notin {l.loan_id : l \in db.loans}
          /\ handled'.code # 400
          /\ handled'.exc # "IntegrityError"]_vars

\* the primary key of the user with that clerk id, if the user has a row
UserPks(d, clerk_id) == {u.id : u \in {x \in d.users : x.clerk_id = clerk_id}}

\* the primary keys of the loans of d that the user with primary key in pks does not own
LoansOfOthers(d, pks) == {l.id : l \in {x \in d.loans : x.owner_id \notin pks}}

\* C30: in api_v2 a get, a status update or a delete that names a loan id
\* resolves to a loan the requesting user owns and is answered 404 when the
\* user owns no loan of that id; whatever the request, the loans of other
\* users, their requirements, events and scores are as they were, no row
\* appears among them, and what is returned is the user's own.
C30_OwnersIsolated ==
    [][(server = "api_v2" /\ handled'.n = handled.n + 1) =>
          LET me == UserPks(db', handled'.request.user)
              others == LoansOfOthers(db, me)
              mine == {l \in db.loans : l.owner_id \in me /\ l.loan_id = handled'.request.loan_id}
          IN  /\ LoansOfOthers(db', me) = others
              /\ {l \in db'.loans : l.id \in others} = {l \in db.loans : l.id \in others}
              /\ {r \in db'.requirements : r.loan_id \in others}
                    = {r \in db.requirements : r.loan_id \in others}
              /\ {e \in db'.compliance_events : e.loan_id \in others}
                    = {e \in db.compliance_events : e.loan_id \in others}
              /\ \A r \in db'.requirements \ db.requirements : r.loan_id \notin others
              /\ \A e \in db'.compliance_events \ db.compliance_events : e.loan_id \notin others
              /\ handled'.op \in {"get", "update", "delete"} =>
                    /\ mine = {} => handled'.code = 404
                    /\ handled'.code = 200 => Cardinality(mine) = 1
              /\ (handled'.op = "get" /\ handled'.code = 200) =>
                    /\ \E l \in mine : /\ handled'.body.id = l.id
                                       /\ handled'.body.compliance_score = l.compliance_score
                    /\ \A k \in 1..Len(handled'.body.requirements) :
                          \E r \in db.requirements :
                              /\ r.id = handled'.body.requirements[k].id
                              /\ r.loan_id = handled'.body.id
                              /\ r.status = handled'.body.requirements[k].status]_vars

\* C30 witness: a user has asked for the loan of another user by its id,
\* a loan with an updated requirement, and was answered 404
C30_Witness ==
    /\ server = "api_v2" /\ handled.n = 3
    /\ handled.op \in {"get", "update", "delete"} /\ handled.code = 404
    /\ \E l \in db.loans :
          /\ l.loan_id = handled.request.loan_id
          /\ l.owner_id \notin UserPks(db, handled.request.user)
          /\ \E e \in db.compliance_events : e.loan_id = l.id

=============================================================================
